---- MODULE Spec2Model ----
(***************************************************************************)
(* Cache-coherent repository of the song library: the Postgres store, the  *)
(* Redis cache (keyed by song id) and the Repository that composes them.   *)
(* Every Store or Cache call is one atomic step of the worker that serves  *)
(* the request; workers interleave between calls.                          *)
(***************************************************************************)
EXTENDS Integers, Sequences, FiniteSets, TLC

VARIABLES
  songs,       \* the rows of table songs (Postgres)
  cache,       \* the Redis keyspace: key (id string) -> JSON payload
  now,         \* the instant the next time.Now() returns
  nextId,      \* the next id uuid.New() hands out
  pc,          \* per worker: the call its request is about to make
  key,         \* per worker: the *domain.SongInfo argument
  song,        \* per worker: the *domain.Song argument / targetSong
  todo,        \* per worker: CacheRecovery's songs still to be cached
  calls,       \* per worker: the Store/Cache calls made by the request so far
  last,        \* the request that returned last, and a summary of the one before
  started,     \* the number of requests started so far
  held,        \* every song the store has held so far, as Store.Read returns it
  storeBy,     \* per id: the worker whose request wrote the row last
  concurrent,  \* whether requests may overlap
  faulty,      \* whether Store/Cache calls may fail
  repo         \* the Repository the Service was constructed with

vars == <<songs, cache, now, nextId, pc, key, song, todo, calls, last, started,
          held, storeBy, concurrent, faulty, repo>>

(***************************************************************************)
(* Bounds and value domains                                                *)
(***************************************************************************)
MaxIds == 2
MaxClock == 4
MaxRequests == 3

Workers == {1, 2}
NilID == 0
Ids == 1..MaxIds
KeyIds == {NilID} \cup Ids
ZeroTime == 0

NoSong == [nil |-> TRUE]
NoKey == [ID |-> NilID, Name |-> "", Group |-> ""]

\* domain.Song
Song(id, name, group, text, link, rd, ca, ua) ==
  [ID |-> id, Name |-> name, Group |-> group, Text |-> text, Link |-> link,
   ReleaseDate |-> rd, CreatedAt |-> ca, UpdatedAt |-> ua]

\* domain.SongInfo
SongInfo(id, name, group) == [ID |-> id, Name |-> name, Group |-> group]

\* the records callers pass to Create and Update
\* (two songs, one with and one without a release date; the record may carry
\* any id and a creation time or none)
SongInputs ==
  { Song(i, c[1], "g1", "t1", "l1", c[2], ca, ZeroTime) :
      i \in KeyIds, c \in {<<"n1", 1>>, <<"n2", ZeroTime>>}, ca \in {ZeroTime, 1} }

\* the lookup keys callers pass: an id, or no id and a name and group
KeyInputs ==
  { SongInfo(i, "", "") : i \in Ids } \cup {SongInfo(NilID, "n1", "g1")}

\* the records callers pass to Update with key k: the record carries the id
\* of the key or none
UpdateInputs(k) == { s \in SongInputs : s.ID \in {NilID, k.ID} }

(***************************************************************************)
(* Errors: a chain of fmt.Errorf("%s: %w") wrappers ending in the wrapped  *)
(* base error; <<>> is nil.                                                *)
(***************************************************************************)
NoErr == <<>>
ErrSongNotFound == <<"ErrSongNotFound">>
ErrSongExists == <<"ErrSongExists">>
ErrBackend == <<"backend">>
ErrMalformed == <<"malformed">>

Wrap(op, e) == <<op>> \o e

\* errors.Is(e, target) for a sentinel target
Is(e, target) == Len(e) > 0 /\ e[Len(e)] = target[1]

Outcomes == IF faulty THEN {"ok", "fail"} ELSE {"ok"}

(***************************************************************************)
(* dto.SongDTO and encoding/json                                           *)
(***************************************************************************)
SongToDTO(s) ==
  [ID |-> s.ID, Name |-> s.Name, Group |-> s.Group, Text |-> s.Text,
   Link |-> s.Link, ReleaseDate |-> s.ReleaseDate, CreatedAt |-> s.CreatedAt,
   UpdatedAt |-> s.UpdatedAt]

DTOToSong(d) ==
  [ID |-> d.ID, Name |-> d.Name, Group |-> d.Group, Text |-> d.Text,
   Link |-> d.Link, ReleaseDate |-> d.ReleaseDate, CreatedAt |-> d.CreatedAt,
   UpdatedAt |-> d.UpdatedAt]

\* json.Marshal(songDTO): one member per field, named by the field's json tag
MarshalDTO(d) ==
  [id |-> d.ID, name |-> d.Name, group |-> d.Group, text |-> d.Text,
   link |-> d.Link, release_date |-> d.ReleaseDate, created_at |-> d.CreatedAt,
   updated_at |-> d.UpdatedAt]

\* json.Unmarshal into dto.SongDTO: members are matched by json tag
UnmarshalDTO(js) ==
  [ID |-> js.id, Name |-> js.name, Group |-> js.group, Text |-> js.text,
   Link |-> js.link, ReleaseDate |-> js.release_date,
   CreatedAt |-> js.created_at, UpdatedAt |-> js.updated_at]

\* the member of js whose name matches an untagged Go field: encoding/json
\* compares the member name with the field name ignoring case only
Member(js, folded, zero) == IF folded \in DOMAIN js THEN js[folded] ELSE zero

\* json.Unmarshal into *domain.Song, whose fields carry no json tags
UnmarshalSong(js) ==
  [ID |-> Member(js, "id", NilID), Name |-> Member(js, "name", ""),
   Group |-> Member(js, "group", ""), Text |-> Member(js, "text", ""),
   Link |-> Member(js, "link", ""),
   ReleaseDate |-> Member(js, "releasedate", ZeroTime),
   CreatedAt |-> Member(js, "createdat", ZeroTime),
   UpdatedAt |-> Member(js, "updatedat", ZeroTime)]

(***************************************************************************)
(* Postgres: table songs                                                   *)
(***************************************************************************)
\* INSERT INTO songs (...) VALUES (...)
InsertRow(s) ==
  [id |-> s.ID, name |-> s.Name, group_name |-> s.Group, text |-> s.Text,
   link |-> s.Link, release_date |-> s.ReleaseDate, created_at |-> s.CreatedAt,
   updated_at |-> s.UpdatedAt]

\* row.Scan(&targetSong.ID, ...)
ScanRow(r) ==
  Song(r.id, r.name, r.group_name, r.text, r.link, r.release_date,
       r.created_at, r.updated_at)

\* ... WHERE id = $1
RowsWithId(tbl, id) == { r \in tbl : r.id = id }

\* an UPDATE that also sets the id column from the caller's record
UpdateRowsSettingId(tbl, id, s) ==
  { IF r.id = id
      THEN [r EXCEPT !.id = s.ID, !.name = s.Name, !.group_name = s.Group,
                     !.text = s.Text, !.link = s.Link,
                     !.release_date = s.ReleaseDate, !.updated_at = s.UpdatedAt]
      ELSE r : r \in tbl }

\* an UPDATE that leaves a column as it is where the caller's record is unset
UpdateRowsWhereSet(tbl, id, s) ==
  { IF r.id = id
      THEN [r EXCEPT !.name = IF s.Name = "" THEN r.name ELSE s.Name,
                     !.group_name = IF s.Group = "" THEN r.group_name ELSE s.Group,
                     !.text = s.Text, !.link = s.Link,
                     !.release_date = s.ReleaseDate, !.updated_at = s.UpdatedAt]
      ELSE r : r \in tbl }

\* UPDATE songs SET name = $1, ..., updated_at = $6 WHERE id = $7
UpdateRows(tbl, id, s) ==
  { IF r.id = id
      THEN [r EXCEPT !.name = s.Name, !.group_name = s.Group, !.text = s.Text,
                     !.link = s.Link, !.release_date = s.ReleaseDate,
                     !.updated_at = s.UpdatedAt]
      ELSE r : r \in tbl }

\* a DELETE without its WHERE clause
DeleteEveryRow(tbl, id) == {}

\* DELETE FROM songs WHERE id = $1
DeleteRows(tbl, id) == { r \in tbl : r.id # id }

(***************************************************************************)
(* Redis: SET key value 0 / GET key / DEL key, with key = id.String()      *)
(***************************************************************************)
RedisKey(s) == s.ID

RedisSet(c, k, v) == [x \in DOMAIN c \cup {k} |-> IF x = k THEN v ELSE c[x]]

RedisDel(c, k) == [x \in DOMAIN c \ {k} |-> c[x]]

\* Redis.Set: the key and payload written for a song
CacheSet(c, s) == RedisSet(c, RedisKey(SongToDTO(s)), MarshalDTO(SongToDTO(s)))

\* an Invalidate that leaves the entry in place
CacheInvalidateKeeps(c, k) == c

\* Redis.Invalidate
CacheInvalidate(c, k) == RedisDel(c, RedisKey(k))

\* Redis.Get on a stored payload
CacheGet(c, k) == UnmarshalSong(c[RedisKey(k)])

\* what json.Unmarshal may make of the payload GET returned: the keyspace is
\* shared, and the payload found under a key need not be one Redis.Set wrote
GetOutcomes(c, k) ==
  Outcomes \cup (IF faulty /\ RedisKey(k) \in DOMAIN c THEN {"malformed"} ELSE {})

\* repository.NewRepository(db, cache): the cache over the store
NewRepository ==
  [stub |-> FALSE, res |-> NoSong, list |-> <<>>, err |-> NoErr, werr |-> NoErr]

(***************************************************************************)
(* Request bookkeeping                                                     *)
(***************************************************************************)
\* one Store or Cache call of a request, with the error it returned
Call(name, e) == [call |-> name, err |-> e]

\* a Repository that goes on to the cache whatever the Store call returned
StoreFailedIgnored(e) == FALSE

\* the Repository's check of the error a Store call returned:
\* if err != nil { return err }
StoreFailed(e) == e # NoErr

\* a request is taken by the first idle worker of the pool
CanStart(w) ==
  /\ pc[w] = "idle"
  /\ \A v \in Workers : v < w => pc[v] # "idle"
  /\ concurrent \/ \A v \in Workers : pc[v] = "idle"
  /\ started < MaxRequests
  /\ started' = started + 1

\* what is remembered of the request before the last
Summary(r) ==
  [op |-> r.op, id |-> IF r.op = "Create" THEN r.song.ID ELSE r.key.ID,
   ok |-> r.err = NoErr]

NoRequest ==
  [op |-> "none", w |-> 0, key |-> NoKey, song |-> NoSong, res |-> NoSong,
   err |-> NoErr, calls |-> <<>>, n |-> 0,
   prev |-> [op |-> "none", id |-> NilID, ok |-> TRUE]]

\* a return that replaces the error of the failed call by an error of the
\* Repository's own
ReturnOwnError(w, op, k, s, res, e, cs) ==
  /\ pc' = [pc EXCEPT ![w] = "idle"]
  /\ key' = [key EXCEPT ![w] = NoKey]
  /\ song' = [song EXCEPT ![w] = NoSong]
  /\ todo' = [todo EXCEPT ![w] = {}]
  /\ calls' = [calls EXCEPT ![w] = <<>>]
  /\ last' = [op |-> op, w |-> w, key |-> k, song |-> s, res |-> res,
              err |-> IF e = NoErr THEN NoErr ELSE <<"Repository." \o op>>,
              calls |-> cs, n |-> 1 - last.n, prev |-> Summary(last)]

\* the request of worker w returns: its outcome is recorded, w becomes idle
Return(w, op, k, s, res, e, cs) ==
  /\ pc' = [pc EXCEPT ![w] = "idle"]
  /\ key' = [key EXCEPT ![w] = NoKey]
  /\ song' = [song EXCEPT ![w] = NoSong]
  /\ todo' = [todo EXCEPT ![w] = {}]
  /\ calls' = [calls EXCEPT ![w] = <<>>]
  /\ last' = [op |-> op, w |-> w, key |-> k, song |-> s, res |-> res, err |-> e,
              calls |-> cs, n |-> 1 - last.n, prev |-> Summary(last)]

\* the request of worker w goes on to its next call
Goto(w, next, k, s, cs) ==
  /\ pc' = [pc EXCEPT ![w] = next]
  /\ key' = [key EXCEPT ![w] = k]
  /\ song' = [song EXCEPT ![w] = s]
  /\ calls' = [calls EXCEPT ![w] = cs]
  /\ UNCHANGED <<todo, last>>

\* ghost: the store now holds tbl
StoreWrote(w, id, tbl) ==
  /\ held' = held \cup { ScanRow(r) : r \in tbl }
  /\ storeBy' = [storeBy EXCEPT ![id] = w]

(***************************************************************************)
(* Repository.Create: Store.Create, then Cache.Set of the same record      *)
(***************************************************************************)
CreateStore(w, s) ==
  /\ CanStart(w)
  /\ nextId <= MaxIds
  /\ now + 1 <= MaxClock
  /\ \E o \in Outcomes :
       LET s1 == [s EXCEPT !.ID = nextId, !.CreatedAt = now, !.UpdatedAt = now + 1]
           e == IF o = "fail" THEN Wrap("repository.SongDB.Create", ErrBackend)
                ELSE IF RowsWithId(songs, s1.ID) # {}
                  THEN Wrap("repository.SongDB.Create", ErrSongExists)
                  ELSE NoErr
       IN /\ nextId' = nextId + 1
          /\ now' = now + 2
          /\ songs' = IF e = NoErr THEN songs \cup {InsertRow(s1)} ELSE songs
          /\ IF ~StoreFailed(e)
               THEN /\ Goto(w, "Create.cache", NoKey, s1,
                            <<Call("Store.Create", e)>>)
                    /\ StoreWrote(w, s1.ID, songs')
               ELSE /\ Return(w, "Create", NoKey, s1, NoSong, e,
                              <<Call("Store.Create", e)>>)
                    /\ UNCHANGED <<held, storeBy>>
  /\ UNCHANGED <<cache, concurrent, faulty, repo>>

\* a Create that deletes the row again when Cache.Set fails
CreateCacheRollingBack(w) ==
  /\ pc[w] = "Create.cache"
  /\ \E o \in Outcomes :
       LET e == IF o = "fail" THEN Wrap("repository.Redis.Set", ErrBackend) ELSE NoErr
       IN /\ cache' = IF e = NoErr THEN CacheSet(cache, song[w]) ELSE cache
          /\ songs' = IF e = NoErr THEN songs ELSE DeleteRows(songs, song[w].ID)
          /\ Return(w, "Create", key[w], song[w], NoSong, e,
                    Append(calls[w], Call("Cache.Set", e)))
  /\ UNCHANGED <<now, nextId, started, held, storeBy, concurrent, faulty, repo>>

CreateCache(w) ==
  /\ pc[w] = "Create.cache"
  /\ \E o \in Outcomes :
       LET e == IF o = "fail" THEN Wrap("repository.Redis.Set", ErrBackend) ELSE NoErr
       IN /\ cache' = IF e = NoErr THEN CacheSet(cache, song[w]) ELSE cache
          /\ Return(w, "Create", key[w], song[w], NoSong, e,
                    Append(calls[w], Call("Cache.Set", e)))
  /\ UNCHANGED <<songs, now, nextId, started, held, storeBy, concurrent, faulty, repo>>

(***************************************************************************)
(* Repository.Read: Cache.Get; on any error Store.Read, then Cache.Set     *)
(***************************************************************************)
\* a Read that goes to the store even when Cache.Get succeeded
ReadCacheThenStore(w, k) ==
  /\ CanStart(w)
  /\ \E o \in GetOutcomes(cache, k) :
       LET e == IF o = "fail" THEN Wrap("repository.Redis.Get", ErrBackend)
                ELSE IF o = "malformed"
                  THEN Wrap("repository.Redis.Get", ErrMalformed)
                ELSE IF RedisKey(k) \notin DOMAIN cache
                  THEN Wrap("repository.Redis.Get", ErrSongNotFound)
                  ELSE NoErr
       IN Goto(w, "Read.store", k, NoSong, <<Call("Cache.Get", e)>>)
  /\ UNCHANGED <<songs, cache, now, nextId, held, storeBy,
                 concurrent, faulty, repo>>

ReadCache(w, k) ==
  /\ CanStart(w)
  /\ \E o \in GetOutcomes(cache, k) :
       LET e == IF o = "fail" THEN Wrap("repository.Redis.Get", ErrBackend)
                ELSE IF o = "malformed"
                  THEN Wrap("repository.Redis.Get", ErrMalformed)
                ELSE IF RedisKey(k) \notin DOMAIN cache
                  THEN Wrap("repository.Redis.Get", ErrSongNotFound)
                  ELSE NoErr
       IN IF e # NoErr
            THEN Goto(w, "Read.store", k, NoSong, <<Call("Cache.Get", e)>>)
            ELSE Return(w, "Read", k, NoSong, CacheGet(cache, k), NoErr,
                        <<Call("Cache.Get", NoErr)>>)
  /\ UNCHANGED <<songs, cache, now, nextId, held, storeBy,
                 concurrent, faulty, repo>>

ReadStore(w) ==
  /\ pc[w] = "Read.store"
  /\ \E o \in Outcomes :
       LET found == RowsWithId(songs, key[w].ID)
           e == IF o = "fail" THEN Wrap("repository.SongDB.Read", ErrBackend)
                ELSE IF found = {}
                  THEN Wrap("repository.SongDB.Read", ErrSongNotFound)
                  ELSE NoErr
       IN IF StoreFailed(e)
            THEN Return(w, "Read", key[w], NoSong, NoSong, e,
                        Append(calls[w], Call("Store.Read", e)))
            ELSE \E r \in found :
                   Goto(w, "Read.set", key[w], ScanRow(r),
                        Append(calls[w], Call("Store.Read", e)))
  /\ UNCHANGED <<songs, cache, now, nextId, started, held, storeBy,
                 concurrent, faulty, repo>>

ReadSet(w) ==
  /\ pc[w] = "Read.set"
  /\ \E o \in Outcomes :
       LET e == IF o = "fail" THEN Wrap("repository.Redis.Set", ErrBackend) ELSE NoErr
       IN /\ cache' = IF e = NoErr THEN CacheSet(cache, song[w]) ELSE cache
          /\ Return(w, "Read", key[w], NoSong,
                    IF e = NoErr THEN song[w] ELSE NoSong, e,
                    Append(calls[w], Call("Cache.Set", e)))
  /\ UNCHANGED <<songs, now, nextId, started, held, storeBy, concurrent, faulty, repo>>

(***************************************************************************)
(* Repository.Update: Store.Update, then Cache.Set of updatedSong          *)
(***************************************************************************)
\* an Update that invalidates the cached entry when Store.Update fails
UpdateStoreInvalidating(w, k, s) ==
  /\ CanStart(w)
  /\ now <= MaxClock
  /\ now' = now + 1
  /\ \E o \in Outcomes :
       LET s1 == [s EXCEPT !.UpdatedAt = now]
           e == IF o = "fail" THEN Wrap("repository.SongDB.Update", ErrBackend)
                ELSE IF RowsWithId(songs, k.ID) = {}
                  THEN Wrap("repository.SongDB.Update", ErrSongNotFound)
                  ELSE NoErr
       IN /\ songs' = IF e = NoErr THEN UpdateRows(songs, k.ID, s1) ELSE songs
          /\ IF ~StoreFailed(e)
               THEN /\ Goto(w, "Update.cache", k, s1, <<Call("Store.Update", e)>>)
                    /\ StoreWrote(w, k.ID, songs')
                    /\ cache' = cache
               ELSE /\ Return(w, "Update", k, s1, NoSong, e,
                              <<Call("Store.Update", e)>>)
                    /\ cache' = CacheInvalidate(cache, k)
                    /\ UNCHANGED <<held, storeBy>>
  /\ UNCHANGED <<nextId, concurrent, faulty, repo>>

UpdateStore(w, k, s) ==
  /\ CanStart(w)
  /\ now <= MaxClock
  /\ now' = now + 1
  /\ \E o \in Outcomes :
       LET s1 == [s EXCEPT !.UpdatedAt = now]
           e == IF o = "fail" THEN Wrap("repository.SongDB.Update", ErrBackend)
                ELSE IF RowsWithId(songs, k.ID) = {}
                  THEN Wrap("repository.SongDB.Update", ErrSongNotFound)
                  ELSE NoErr
       IN /\ songs' = IF e = NoErr THEN UpdateRows(songs, k.ID, s1) ELSE songs
          /\ IF ~StoreFailed(e)
               THEN /\ Goto(w, "Update.cache", k, s1, <<Call("Store.Update", e)>>)
                    /\ StoreWrote(w, k.ID, songs')
               ELSE /\ Return(w, "Update", k, s1, NoSong, e,
                              <<Call("Store.Update", e)>>)
                    /\ UNCHANGED <<held, storeBy>>
  /\ UNCHANGED <<cache, nextId, concurrent, faulty, repo>>

\* an Update whose cache write takes the row the store holds at that moment
UpdateCacheFromStore(w) ==
  /\ pc[w] = "Update.cache"
  /\ LET found == RowsWithId(songs, key[w].ID)
     IN cache' = IF found = {} THEN cache
                 ELSE CacheSet(cache, ScanRow(CHOOSE r \in found : TRUE))
  /\ Return(w, "Update", key[w], song[w], NoSong, NoErr,
            Append(calls[w], Call("Cache.Set", NoErr)))
  /\ UNCHANGED <<songs, now, nextId, started, held, storeBy, concurrent, faulty, repo>>

UpdateCache(w) ==
  /\ pc[w] = "Update.cache"
  /\ \E o \in Outcomes :
       LET e == IF o = "fail" THEN Wrap("repository.Redis.Set", ErrBackend) ELSE NoErr
       IN /\ cache' = IF e = NoErr THEN CacheSet(cache, song[w]) ELSE cache
          /\ Return(w, "Update", key[w], song[w], NoSong, e,
                    Append(calls[w], Call("Cache.Set", e)))
  /\ UNCHANGED <<songs, now, nextId, started, held, storeBy, concurrent, faulty, repo>>

(***************************************************************************)
(* Repository.Delete: Store.Delete, then Cache.Invalidate of the same key  *)
(***************************************************************************)
\* a Delete that invalidates the cache whatever Store.Delete returned
DeleteStoreThenAlwaysCache(w, k) ==
  /\ CanStart(w)
  /\ \E o \in Outcomes :
       LET e == IF o = "fail" THEN Wrap("repository.SongDB.Delete", ErrBackend)
                ELSE IF RowsWithId(songs, k.ID) = {}
                  THEN Wrap("repository.SongDB.Delete", ErrSongNotFound)
                  ELSE NoErr
       IN /\ songs' = IF e = NoErr THEN DeleteRows(songs, k.ID) ELSE songs
          /\ Goto(w, "Delete.cache", k, NoSong, <<Call("Store.Delete", e)>>)
          /\ StoreWrote(w, k.ID, songs')
  /\ UNCHANGED <<cache, now, nextId, concurrent, faulty, repo>>

DeleteStore(w, k) ==
  /\ CanStart(w)
  /\ \E o \in Outcomes :
       LET e == IF o = "fail" THEN Wrap("repository.SongDB.Delete", ErrBackend)
                ELSE IF RowsWithId(songs, k.ID) = {}
                  THEN Wrap("repository.SongDB.Delete", ErrSongNotFound)
                  ELSE NoErr
       IN /\ songs' = IF e = NoErr THEN DeleteRows(songs, k.ID) ELSE songs
          /\ IF ~StoreFailed(e)
               THEN /\ Goto(w, "Delete.cache", k, NoSong, <<Call("Store.Delete", e)>>)
                    /\ StoreWrote(w, k.ID, songs')
               ELSE /\ Return(w, "Delete", k, NoSong, NoSong, e,
                              <<Call("Store.Delete", e)>>)
                    /\ UNCHANGED <<held, storeBy>>
  /\ UNCHANGED <<cache, now, nextId, concurrent, faulty, repo>>

DeleteCache(w) ==
  /\ pc[w] = "Delete.cache"
  /\ \E o \in Outcomes :
       LET e == IF o = "fail" THEN Wrap("repository.Redis.Invalidate", ErrBackend)
                ELSE NoErr
       IN /\ cache' = IF e = NoErr THEN CacheInvalidate(cache, key[w]) ELSE cache
          /\ Return(w, "Delete", key[w], NoSong, NoSong, e,
                    Append(calls[w], Call("Cache.Invalidate", e)))
  /\ UNCHANGED <<songs, now, nextId, started, held, storeBy, concurrent, faulty, repo>>

(***************************************************************************)
(* Repository.CacheRecovery: full scan of the store, Cache.Set of each row *)
(***************************************************************************)
RecoveryStore(w) ==
  /\ CanStart(w)
  /\ \E o \in Outcomes :
       LET e == IF o = "fail"
                  THEN Wrap("repository.SongDB.ReadAllWithFilter", ErrBackend)
                  ELSE NoErr
           found == { ScanRow(r) : r \in songs }
       IN IF StoreFailed(e) \/ found = {}
            THEN Return(w, "CacheRecovery", NoKey, NoSong, NoSong, e,
                        <<Call("Store.ReadAllWithFilter", e)>>)
            ELSE /\ pc' = [pc EXCEPT ![w] = "Recovery.set"]
                 /\ todo' = [todo EXCEPT ![w] = found]
                 /\ calls' = [calls EXCEPT ![w] =
                                <<Call("Store.ReadAllWithFilter", e)>>]
                 /\ UNCHANGED <<key, song, last>>
  /\ UNCHANGED <<songs, cache, now, nextId, held, storeBy,
                 concurrent, faulty, repo>>

\* a loop that goes on to the next song after a Cache.Set that failed
RecoverySetContinuing(w) ==
  /\ pc[w] = "Recovery.set"
  /\ \E o \in Outcomes, s \in todo[w] :
       LET e == IF o = "fail" THEN Wrap("repository.Redis.Set", ErrBackend) ELSE NoErr
           cs == Append(calls[w], Call("Cache.Set", e))
       IN /\ cache' = IF e = NoErr THEN CacheSet(cache, s) ELSE cache
          /\ IF todo[w] = {s}
               THEN Return(w, "CacheRecovery", NoKey, NoSong, NoSong, e, cs)
               ELSE /\ todo' = [todo EXCEPT ![w] = @ \ {s}]
                    /\ calls' = [calls EXCEPT ![w] = cs]
                    /\ UNCHANGED <<pc, key, song, last>>
  /\ UNCHANGED <<songs, now, nextId, started, held, storeBy, concurrent, faulty, repo>>

\* one iteration of the loop over songs; the scan has no ORDER BY, so the
\* rows come in any order
RecoverySet(w) ==
  /\ pc[w] = "Recovery.set"
  /\ \E o \in Outcomes, s \in todo[w] :
       LET e == IF o = "fail" THEN Wrap("repository.Redis.Set", ErrBackend) ELSE NoErr
           cs == Append(calls[w], Call("Cache.Set", e))
       IN /\ cache' = IF e = NoErr THEN CacheSet(cache, s) ELSE cache
          /\ IF e # NoErr \/ todo[w] = {s}
               THEN Return(w, "CacheRecovery", NoKey, NoSong, NoSong, e, cs)
               ELSE /\ todo' = [todo EXCEPT ![w] = @ \ {s}]
                    /\ calls' = [calls EXCEPT ![w] = cs]
                    /\ UNCHANGED <<pc, key, song, last>>
  /\ UNCHANGED <<songs, now, nextId, started, held, storeBy, concurrent, faulty, repo>>

(***************************************************************************)
(* Specifications                                                          *)
(***************************************************************************)
Start ==
  /\ songs = {}
  /\ cache = [x \in {} |-> NoSong]
  /\ now = 1
  /\ nextId = 1
  /\ pc = [w \in Workers |-> "idle"]
  /\ key = [w \in Workers |-> NoKey]
  /\ song = [w \in Workers |-> NoSong]
  /\ todo = [w \in Workers |-> {}]
  /\ calls = [w \in Workers |-> <<>>]
  /\ last = NoRequest
  /\ started = 0
  /\ held = {}
  /\ storeBy = [k \in KeyIds |-> 0]
  /\ repo = NewRepository

\* requests overlap, backends may fail
Init == Start /\ concurrent = TRUE /\ faulty = TRUE

\* one request at a time, no backend failure
SeqInit == Start /\ concurrent = FALSE /\ faulty = FALSE

\* one request at a time, backends may fail
SeqFaultInit == Start /\ concurrent = FALSE /\ faulty = TRUE

\* requests overlap, no backend failure
ConcInit == Start /\ concurrent = TRUE /\ faulty = FALSE

Next ==
  \/ \E w \in Workers, s \in SongInputs : CreateStore(w, s)
  \/ \E w \in Workers : CreateCache(w)
  \/ \E w \in Workers, k \in KeyInputs : ReadCache(w, k)
  \/ \E w \in Workers : ReadStore(w)
  \/ \E w \in Workers : ReadSet(w)
  \/ \E w \in Workers, k \in KeyInputs :
       \E s \in UpdateInputs(k) : UpdateStore(w, k, s)
  \/ \E w \in Workers : UpdateCache(w)
  \/ \E w \in Workers, k \in KeyInputs : DeleteStore(w, k)
  \/ \E w \in Workers : DeleteCache(w)
  \/ \E w \in Workers : RecoveryStore(w)
  \/ \E w \in Workers : RecoverySet(w)

Spec == Init /\ [][Next]_vars
SeqSpec == SeqInit /\ [][Next]_vars
SeqFaultSpec == SeqFaultInit /\ [][Next]_vars
ConcSpec == ConcInit /\ [][Next]_vars

TypeOK ==
  /\ \A r \in songs : r.id \in Ids
  /\ DOMAIN cache \subseteq KeyIds
  /\ now \in 1..MaxClock + 1

(***************************************************************************)
(* Vocabulary of the properties                                            *)
(***************************************************************************)
Idle == \A w \in Workers : pc[w] = "idle"

StoreHolds(k) == RowsWithId(songs, k) # {}

\* the song Store.Read returns for id k
StoreSong(k) == ScanRow(CHOOSE r \in songs : r.id = k)

CacheHolds(k) == k \in DOMAIN cache

\* the record the payload stored under key k encodes
CachedSong(k) == DTOToSong(UnmarshalDTO(cache[k]))

StoreCalls ==
  {"Store.Create", "Store.Read", "Store.Update", "Store.Delete",
   "Store.ReadAllWithFilter"}

CacheWrites == {"Cache.Set", "Cache.Invalidate"}

\* a request has returned in this step
Returned == last'.n # last.n

\* the Updates pass a record that carries the id of the key
SameIdUpdate ==
  \A w \in Workers : pc'[w] = "Update.cache" => song'[w].ID = key'[w].ID

SameIdNext == Next /\ SameIdUpdate

\* one request at a time, no backend failure, Update(key, newSong) only with
\* newSong.id = key.id
SeqSameIdSpec == SeqInit /\ [][SameIdNext]_vars

(***************************************************************************)
(* C1: in a sequential run without failures whose Updates pass a record    *)
(* with the id of the key, after every completed request a cache entry for *)
(* k implies a store row for k that equals the cached record in every      *)
(* field.                                                                  *)
(***************************************************************************)
C1_CacheMirrorsStore ==
  Idle => \A k \in KeyIds :
            CacheHolds(k) => StoreHolds(k) /\ CachedSong(k) = StoreSong(k)

\* the calls worker w's request has made once the step is taken
NewLog(w) ==
  IF pc'[w] # "idle" THEN calls'[w]
  ELSE IF Returned /\ last'.w = w THEN last'.calls ELSE <<>>

\* the step made worker w's request complete a successful cache write
WroteCache(w) ==
  LET cs == NewLog(w)
  IN /\ Len(cs) = Len(calls[w]) + 1
     /\ cs[Len(cs)].call \in CacheWrites
     /\ cs[Len(cs)].err = NoErr

\* in the calls of one request, every cache write comes after a Store call
\* that succeeded and after no Store call that failed
StoreFirst(cs) ==
  \A i \in DOMAIN cs :
    cs[i].call \in CacheWrites =>
      /\ \E j \in 1..(i - 1) : cs[j].call \in StoreCalls /\ cs[j].err = NoErr
      /\ \A j \in 1..(i - 1) : cs[j].call \in StoreCalls => cs[j].err = NoErr

\* no call of the request failed in its backend or on a malformed payload
\* (a miss is not a failure)
NoFailure(cs) ==
  \A i \in DOMAIN cs : ~Is(cs[i].err, ErrBackend) /\ ~Is(cs[i].err, ErrMalformed)

(***************************************************************************)
(* C2: the cache content changes only in a step in which a request         *)
(* completes a Cache.Set or Cache.Invalidate, and in the calls of every    *)
(* request, running or returned, each cache write comes after a successful *)
(* Store call of the same request and after no failed one; Create, Update  *)
(* and Delete issue their Store write as their first call.                 *)
(***************************************************************************)
C2_StoreBeforeCache ==
  [][ /\ cache' # cache => \E w \in Workers : WroteCache(w)
      /\ \A w \in Workers : StoreFirst(NewLog(w))
      /\ Returned /\ last'.op \in {"Create", "Update", "Delete"}
            => last'.calls[1].call = "Store." \o last'.op ]_vars

C2_Witness ==
  /\ last.op = "Update"
  /\ last.calls = <<Call("Store.Update", NoErr), Call("Cache.Set", NoErr)>>
  /\ CacheHolds(last.song.ID)

(***************************************************************************)
(* C3: in every reachable state, whatever the interleaving and the         *)
(* failures, the record cached under k is a record the store holds or has  *)
(* held under k.                                                           *)
(***************************************************************************)
C3_CacheNeverAhead ==
  \A k \in DOMAIN cache : CachedSong(k) \in { h \in held : h.ID = k }

\* the Read that returned last missed the cache, read the store's record
\* and cached it
ReadFilled ==
  /\ last.op = "Read"
  /\ last.err = NoErr
  /\ Len(last.calls) = 3
  /\ Is(last.calls[1].err, ErrSongNotFound)
  /\ last.calls[2] = Call("Store.Read", NoErr)
  /\ last.calls[3] = Call("Cache.Set", NoErr)

\* the request that returns in this step is a Read of key k
ReadReturns(k) == Returned /\ last'.op = "Read" /\ last'.key.ID = k

(***************************************************************************)
(* C4: a Read(K) that misses the cache and finds K in the store returns    *)
(* the store's record and leaves that record in the cache under K, and the *)
(* Read(K) that follows it immediately (no call failing) returns the same  *)
(* record, equal in every field, without a Store call.                     *)
(***************************************************************************)
C4_ReadThroughFill ==
  [][ /\ ReadFilled' /\ Returned
        => LET k == last'.key.ID
           IN /\ { ScanRow(r) : r \in RowsWithId(songs', k) } = {last'.res}
              /\ k \in DOMAIN cache'
              /\ DTOToSong(UnmarshalDTO(cache'[k])) = last'.res
      /\ ReadFilled /\ ReadReturns(last.key.ID) /\ NoFailure(last'.calls)
        => /\ last'.err = NoErr
           /\ last'.res = last.res
           /\ \A i \in DOMAIN last'.calls : last'.calls[i].call \notin StoreCalls
    ]_vars

\* the fields of a song the caller supplies to Create
Supplied(s) ==
  [Name |-> s.Name, Group |-> s.Group, Text |-> s.Text, Link |-> s.Link,
   ReleaseDate |-> s.ReleaseDate]

(***************************************************************************)
(* C5: in a sequential run, when Create(S) has succeeded and the request   *)
(* that follows it immediately is a Read with the id Create assigned (no   *)
(* call failing), the Read makes no call but Cache.Get and returns a       *)
(* record with the assigned id that equals S in name, group, text, link    *)
(* and release_date.                                                       *)
(***************************************************************************)
C5_CreateThenRead ==
  [][ ( /\ last.op = "Create" /\ last.err = NoErr
        /\ ReadReturns(last.song.ID) /\ NoFailure(last'.calls) )
        => /\ last'.err = NoErr
           /\ last'.calls = <<Call("Cache.Get", NoErr)>>
           /\ last'.res.ID = last.song.ID
           /\ Supplied(last'.res) = Supplied(last.song)
    ]_vars

\* the request that returned last is a successful Delete
Deleted == last.op = "Delete" /\ last.err = NoErr

(***************************************************************************)
(* C6: in a sequential run, when a Delete(K) returns success neither the   *)
(* store nor the cache holds K, and the Read(K) that follows it            *)
(* immediately returns no record, and NotFound unless a call of it failed. *)
(***************************************************************************)
C6_DeleteThenRead ==
  [][ /\ Deleted' /\ Returned
        => /\ RowsWithId(songs', last'.key.ID) = {}
           /\ last'.key.ID \notin DOMAIN cache'
      /\ Deleted /\ ReadReturns(last.key.ID)
        => /\ last'.res = NoSong
           /\ NoFailure(last'.calls) => Is(last'.err, ErrSongNotFound)
    ]_vars

C6_Witness ==
  /\ last.op = "Read"
  /\ last.prev = [op |-> "Delete", id |-> last.key.ID, ok |-> TRUE]
  /\ \E h \in held : h.ID = last.key.ID
  /\ Is(last.err, ErrSongNotFound)

(***************************************************************************)
(* C7: when an Update(key, newSong) returns success, whatever the id of    *)
(* newSong, the cache holds newSong's payload under key.id, and the entry  *)
(* of every other key is what it was before the Cache.Set.                 *)
(***************************************************************************)
C7_UpdateOverwritesKey ==
  [][ Returned /\ last'.op = "Update" /\ last'.err = NoErr
        => LET k == last'.key.ID
           IN /\ k \in DOMAIN cache'
              /\ cache'[k] = MarshalDTO(SongToDTO(last'.song))
              /\ \A x \in KeyIds \ {k} :
                   /\ x \in DOMAIN cache' <=> x \in DOMAIN cache
                   /\ x \in DOMAIN cache => cache'[x] = cache[x]
    ]_vars

\* the Update that starts in this step passes the record a caller builds
\* from the stored song: it carries the id of the key and the row's
\* creation time
WellFormedUpdate ==
  \A w \in Workers :
    pc[w] = "idle" /\ pc'[w] = "Update.cache"
      => /\ song'[w].ID = key'[w].ID
         /\ \A r \in RowsWithId(songs', key'[w].ID) :
              r.created_at = song'[w].CreatedAt

WellFormedNext == Next /\ WellFormedUpdate

\* requests overlap, no backend failure, Updates pass well-formed records
ConcWellFormedSpec == ConcInit /\ [][WellFormedNext]_vars

\* a Create, Update or Delete on key k has written the store and has not
\* yet written the cache
InFlightWrite(k) ==
  \E w \in Workers :
    \/ pc[w] = "Create.cache" /\ song[w].ID = k
    \/ pc[w] \in {"Update.cache", "Delete.cache"} /\ key[w].ID = k

(***************************************************************************)
(* C8: with overlapping requests and no backend failure, whenever no       *)
(* Create, Update or Delete on k is in flight, a cache entry for k equals  *)
(* the store row for k.                                                    *)
(***************************************************************************)
C8_BoundedDivergence ==
  \A k \in DOMAIN cache :
    ~InFlightWrite(k) => StoreHolds(k) /\ CachedSong(k) = StoreSong(k)

\* no request is running, and the two requests that returned last are
\* successful Updates of the same key
UpdatedTwice ==
  /\ Idle
  /\ last.op = "Update" /\ last.err = NoErr
  /\ last.song.ID = last.key.ID
  /\ last.prev = [op |-> "Update", id |-> last.key.ID, ok |-> TRUE]

(***************************************************************************)
(* C9: after two successful Updates of the same key, the cache holds the   *)
(* record of the request whose Cache.Set ran last (the one that returned   *)
(* last), and the store row carries the values of the request whose        *)
(* Store.Update ran last: those of the last returner when its worker wrote *)
(* the row last. The witness is the state in which the last store writer   *)
(* is the other request: the row and the cache entry of the key then carry *)
(* the records of different requests.                                      *)
(***************************************************************************)
C9_LastWriterWinsAtEach ==
  UpdatedTwice =>
    LET k == last.key.ID
    IN /\ CacheHolds(k)
       /\ CachedSong(k) = last.song
       /\ StoreHolds(k) /\ storeBy[k] = last.w
            => /\ Supplied(StoreSong(k)) = Supplied(last.song)
               /\ StoreSong(k).UpdatedAt = last.song.UpdatedAt

C9_Witness ==
  /\ UpdatedTwice
  /\ DOMAIN cache = {last.key.ID}
  /\ StoreHolds(last.key.ID)
  /\ storeBy[last.key.ID] # last.w
  /\ CachedSong(last.key.ID).CreatedAt = StoreSong(last.key.ID).CreatedAt
  /\ StoreSong(last.key.ID).UpdatedAt # CachedSong(last.key.ID).UpdatedAt
  /\ Supplied(StoreSong(last.key.ID)) # Supplied(CachedSong(last.key.ID))

\* the request that returns in this step made a Store call that failed
StoreCallFailed ==
  /\ Returned
  /\ \E i \in DOMAIN last'.calls :
       last'.calls[i].call \in StoreCalls /\ last'.calls[i].err # NoErr

(***************************************************************************)
(* C10: in a sequential run, a Create, Read or Delete whose Store call     *)
(* fails (NotFound included) returns the error of that call and no record, *)
(* has made no Cache.Set and no Cache.Invalidate, and leaves the cache as  *)
(* it was: neither the step of the failed Store call nor the Cache.Get     *)
(* before it changes the cache.                                            *)
(***************************************************************************)
C10_StoreFailureLeavesCache ==
  [][ /\ StoreCallFailed /\ last'.op \in {"Create", "Read", "Delete"}
        => /\ last'.err = last'.calls[Len(last'.calls)].err
           /\ last'.calls[Len(last'.calls)].call \in StoreCalls
           /\ last'.res = NoSong
           /\ \A i \in DOMAIN last'.calls :
                last'.calls[i].call \notin CacheWrites
           /\ cache' = cache
      /\ (\E w \in Workers : pc'[w] = "Read.store") => cache' = cache
    ]_vars

C10_Witness ==
  /\ last.op = "Delete"
  /\ last.calls =
       <<Call("Store.Delete", Wrap("repository.SongDB.Delete", ErrSongNotFound))>>
  /\ last.err = Wrap("repository.SongDB.Delete", ErrSongNotFound)
  /\ CacheHolds(last.key.ID)

\* the request that returned last is an Update whose Store.Update failed
UpdateFailedAtStore ==
  /\ last.op = "Update"
  /\ Len(last.calls) = 1
  /\ last.calls[1].call = "Store.Update"
  /\ last.calls[1].err # NoErr

(***************************************************************************)
(* C11: in a sequential run, an Update whose Store.Update fails (NotFound  *)
(* included) returns the error of that call, has made no cache call and    *)
(* leaves the cache as it was; when the cache holds an entry under the key *)
(* and the next request is a Read of that key whose Cache.Get succeeds,    *)
(* the Read returns the record of that entry, without a Store call.        *)
(***************************************************************************)
C11_FailedUpdateKeepsEntry ==
  [][ /\ UpdateFailedAtStore' /\ Returned
        => /\ last'.err = last'.calls[1].err
           /\ cache' = cache
      /\ ( /\ UpdateFailedAtStore /\ CacheHolds(last.key.ID)
           /\ ReadReturns(last.key.ID) /\ last'.calls[1].err = NoErr )
        => /\ last'.err = NoErr
           /\ last'.calls = <<Call("Cache.Get", NoErr)>>
           /\ last'.res = CacheGet(cache, last.key)
           /\ cache' = cache
    ]_vars

C11_Witness ==
  /\ last.op = "Read" /\ last.err = NoErr
  /\ last.calls = <<Call("Cache.Get", NoErr)>>
  /\ last.prev = [op |-> "Update", id |-> last.key.ID, ok |-> FALSE]
  /\ last.res.ID = last.key.ID
  /\ StoreHolds(last.key.ID)
  /\ StoreSong(last.key.ID).UpdatedAt = CachedSong(last.key.ID).UpdatedAt

\* the request that returned last is a Create whose Store.Create succeeded
\* and whose Cache.Set failed
CreateFailedAtCache ==
  /\ last.op = "Create"
  /\ Len(last.calls) = 2
  /\ last.calls[1] = Call("Store.Create", NoErr)
  /\ last.calls[2].call = "Cache.Set"
  /\ last.calls[2].err # NoErr

(***************************************************************************)
(* C12: in a sequential run, a Create whose Store.Create succeeds and      *)
(* whose Cache.Set fails returns the error of the Cache.Set; the row it    *)
(* inserted is in the store when it returns, and the cache holds no entry  *)
(* under the id it assigned.                                               *)
(***************************************************************************)
C12_CreateCacheFailure ==
  [][ CreateFailedAtCache' /\ Returned
        => /\ last'.err # NoErr
           /\ last'.err = last'.calls[2].err
           /\ RowsWithId(songs', last'.song.ID) = {InsertRow(last'.song)}
           /\ last'.song.ID \notin DOMAIN cache'
    ]_vars

C12_Witness ==
  /\ CreateFailedAtCache
  /\ last.err = Wrap("repository.Redis.Set", ErrBackend)
  /\ StoreHolds(last.song.ID)
  /\ ~CacheHolds(last.song.ID)

\* the rows of the song with this name and group
RowsNamed(tbl, name, group) ==
  { r \in tbl : r.name = name /\ r.group_name = group }

(***************************************************************************)
(* C13: in a sequential run, when a Create has inserted its row and failed *)
(* at the Cache.Set, and the next request is a Create of a song with the   *)
(* same name and group whose Store.Create does not fail in the backend,    *)
(* that Create fails with AlreadyExists and the store still holds one row  *)
(* of that name and group.                                                 *)
(***************************************************************************)
C13_RetriedCreateExists ==
  [][ ( /\ CreateFailedAtCache
        /\ Returned /\ last'.op = "Create"
        /\ last'.song.Name = last.song.Name
        /\ last'.song.Group = last.song.Group
        /\ ~Is(last'.calls[1].err, ErrBackend) )
        => /\ Is(last'.err, ErrSongExists)
           /\ Cardinality(RowsNamed(songs', last.song.Name, last.song.Group)) = 1
    ]_vars

(***************************************************************************)
(* C14: a Read whose Cache.Get fails on a malformed payload makes no       *)
(* further call and returns that integrity error, which is not NotFound.   *)
(***************************************************************************)
C14_MalformedPayloadSurfaces ==
  [][ ( /\ Returned /\ last'.op = "Read"
        /\ Is(last'.calls[1].err, ErrMalformed) )
        => /\ Len(last'.calls) = 1
           /\ Is(last'.err, ErrMalformed)
           /\ ~Is(last'.err, ErrSongNotFound)
    ]_vars

\* the last call the request that returned last has made
LastCall == last.calls[Len(last.calls)]

(***************************************************************************)
(* C15: in a sequential run, the error a request returns is the error its  *)
(* last call returned, unchanged; every earlier call of the request that   *)
(* failed is the Cache.Get of a Read; and a returned error is NotFound     *)
(* only when it comes from a Store call that found no row under the key,   *)
(* AlreadyExists only when it comes from Store.Create.                     *)
(***************************************************************************)
C15_ErrorsReturnedAsIs ==
  [][ Returned /\ last'.err # NoErr
        => /\ last'.err = LastCall'.err
           /\ \A i \in 1..(Len(last'.calls) - 1) :
                last'.calls[i].err # NoErr => last'.calls[i].call = "Cache.Get"
           /\ Is(last'.err, ErrSongNotFound)
                => /\ LastCall'.call \in StoreCalls
                   /\ RowsWithId(songs', last'.key.ID) = {}
           /\ Is(last'.err, ErrSongExists) => LastCall'.call = "Store.Create"
    ]_vars

C15_Witness ==
  /\ last.op = "Read"
  /\ last.err = Wrap("repository.SongDB.Read", ErrBackend)
  /\ Len(last.calls) = 2
  /\ Is(last.calls[1].err, ErrBackend)
  /\ StoreHolds(last.key.ID)

\* the request that returned last is a CacheRecovery that succeeded
Recovered == last.op = "CacheRecovery" /\ last.err = NoErr

(***************************************************************************)
(* C16: in a sequential run, when a CacheRecovery returns success, for     *)
(* every row of the store Cache.Get under the row's id returns the record  *)
(* Store.ReadAllWithFilter returns for that row; and a successful          *)
(* CacheRecovery that follows a successful CacheRecovery immediately       *)
(* leaves the cache as the first left it.                                  *)
(***************************************************************************)
C16_RecoveryFillsCache ==
  [][ /\ Recovered' /\ Returned
        => \A r \in songs' :
             /\ r.id \in DOMAIN cache'
             /\ CacheGet(cache', SongInfo(r.id, "", "")) = ScanRow(r)
      /\ Recovered /\ Recovered' /\ Returned => cache' = cache
    ]_vars

\* the rows whose payload the cache c holds under their id
RowsCached(tbl, c) ==
  { r \in tbl : r.id \in DOMAIN c /\ c[r.id] = MarshalDTO(SongToDTO(ScanRow(r))) }

\* the calls in cs that succeeded
Succeeded(cs) == { i \in DOMAIN cs : cs[i].err = NoErr }

(***************************************************************************)
(* C17: in a sequential run, a CacheRecovery makes no call after a call    *)
(* that failed and returns the error of that call: after a failed scan it  *)
(* has made no Cache.Set, and a Cache.Set that fails is its last. It makes *)
(* at most one Cache.Set per row, the step of a failed Cache.Set leaves    *)
(* the cache as it was, and when it returns the cache holds the payload of *)
(* as many rows, at least, as Cache.Set calls succeeded.                   *)
(***************************************************************************)
C17_RecoveryFailsFast ==
  [][ /\ \A w \in Workers :
           pc'[w] = "Recovery.set" => Succeeded(calls'[w]) = DOMAIN calls'[w]
      /\ Returned /\ last'.op = "CacheRecovery"
           => /\ last'.calls[1].call = "Store.ReadAllWithFilter"
              /\ \A i \in 2..Len(last'.calls) : last'.calls[i].call = "Cache.Set"
              /\ 1..(Len(last'.calls) - 1) \subseteq Succeeded(last'.calls)
              /\ last'.err = LastCall'.err
              /\ Len(last'.calls) - 1 <= Cardinality(songs')
              /\ LastCall'.err # NoErr => cache' = cache
              /\ Cardinality(RowsCached(songs', cache'))
                   >= Cardinality(Succeeded(last'.calls) \ {1})
    ]_vars

C17_Witness ==
  /\ last.op = "CacheRecovery"
  /\ last.calls = << Call("Store.ReadAllWithFilter", NoErr),
                     Call("Cache.Set", Wrap("repository.Redis.Set", ErrBackend)) >>
  /\ last.err = Wrap("repository.Redis.Set", ErrBackend)
  /\ Cardinality(songs) = 2

\* the request that returned last is a Read whose Cache.Get succeeded
ReadHit == last.op = "Read" /\ last.calls[1] = Call("Cache.Get", NoErr)

(***************************************************************************)
(* C18: a Read whose Cache.Get succeeds makes no other call and returns,   *)
(* without error, the record Cache.Get returned for the entry; the step    *)
(* leaves store and cache as they were. The witness is a hit on a key      *)
(* whose row the store no longer holds.                                    *)
(***************************************************************************)
C18_HitReturnsAtOnce ==
  [][ ReadHit' /\ Returned
        => /\ last'.calls = <<Call("Cache.Get", NoErr)>>
           /\ last'.err = NoErr
           /\ last'.res = CacheGet(cache, last'.key)
           /\ cache' = cache
           /\ songs' = songs
    ]_vars

C18_Witness ==
  /\ ReadHit
  /\ last.err = NoErr
  /\ last.res.ID = last.key.ID
  /\ CacheHolds(last.key.ID)
  /\ ~StoreHolds(last.key.ID)

(***************************************************************************)
(* C19: a Read (no call failing) with a key that has the zero id and the   *)
(* name and group of a song the store holds returns, without error, a      *)
(* record of that name and group with the text of such a row.              *)
(***************************************************************************)
C19_ReadByNameAndGroup ==
  [][ ( /\ Returned /\ last'.op = "Read" /\ NoFailure(last'.calls)
        /\ last'.key.ID = NilID
        /\ RowsNamed(songs', last'.key.Name, last'.key.Group) # {} )
        => /\ last'.err = NoErr
           /\ \E r \in RowsNamed(songs', last'.key.Name, last'.key.Group) :
                /\ last'.res.Name = r.name
                /\ last'.res.Group = r.group_name
                /\ last'.res.Text = r.text
    ]_vars

\* the ids of the rows of tbl
RowIds(tbl) == { r.id : r \in tbl }

\* every id a row of the store has carried so far
IdsHeld == { h.ID : h \in held }

(***************************************************************************)
(* C20: with overlapping Creates, Updates and Deletes, no two rows of the  *)
(* store share an id; a row that enters the store carries an id that is    *)
(* not the zero id and that no row, present or deleted, has carried        *)
(* before; and a row that stays in the store (the row created at the same  *)
(* instant) keeps its id.                                                  *)
(***************************************************************************)
C20_IdsUniqueAndStable ==
  [][ /\ \A r1, r2 \in songs' : r1.id = r2.id => r1 = r2
      /\ \A r \in songs' :
           r.id \notin RowIds(songs) => r.id # NilID /\ r.id \notin IdsHeld
      /\ \A r1 \in songs, r2 \in songs' :
           r1.created_at = r2.created_at => r1.id = r2.id
    ]_vars

C20_Witness ==
  /\ Idle
  /\ \E i \in IdsHeld : i \notin RowIds(songs)
  /\ \E r \in songs : \A i \in IdsHeld \ RowIds(songs) : r.id > i

(***************************************************************************)
(* Strings as the code sees them: sequences of characters                  *)
(***************************************************************************)
\* the characters of the strings the model uses
Runes(s) ==
  CASE s = "" -> <<>>
    [] s = "n1" -> <<"n", "1">>
    [] s = "n2" -> <<"n", "2">>
    [] s = "N3" -> <<"N", "3">>
    [] s = "g1" -> <<"g", "1">>
    [] s = "G3" -> <<"G", "3">>
    [] s = "t1" -> <<"t", "1">>
    [] s = "l1" -> <<"l", "1">>
    [] s = "l3" -> <<"l", "3">>
    [] s = "n" -> <<"n">>
    [] s = "N" -> <<"N">>
    [] s = "1" -> <<"1">>
    [] s = "_" -> <<"_">>
    [] s = "%" -> <<"%">>
    [] s = "_1" -> <<"_", "1">>
    [] s = "a\n\nb" -> <<"a", "\n", "\n", "b">>
    [] s = "a\n\n\nb\n\n" -> <<"a", "\n", "\n", "\n", "b", "\n", "\n">>
    [] s = "\n\n" -> <<"\n", "\n">>

\* strings.Index(s, sep): the first position sep occurs at, 0 when it does not
Index(s, sep) ==
  LET at == { i \in 1..(Len(s) - Len(sep) + 1) : SubSeq(s, i, i + Len(sep) - 1) = sep }
  IN IF at = {} THEN 0 ELSE CHOOSE i \in at : \A j \in at : i <= j

\* a split at the first separator only
SplitOnce(s, sep) ==
  LET i == Index(s, sep)
  IN IF i = 0 THEN <<s>>
     ELSE <<SubSeq(s, 1, i - 1), SubSeq(s, i + Len(sep), Len(s))>>

\* strings.Split(s, sep) for a non-empty sep
RECURSIVE Split(_, _)
Split(s, sep) ==
  LET i == Index(s, sep)
  IN IF i = 0 THEN <<s>>
     ELSE <<SubSeq(s, 1, i - 1)>> \o Split(SubSeq(s, i + Len(sep), Len(s)), sep)

\* strings.Join(parts, sep)
RECURSIVE Join(_, _)
Join(parts, sep) ==
  IF Len(parts) = 0 THEN <<>>
  ELSE IF Len(parts) = 1 THEN parts[1]
  ELSE parts[1] \o sep \o Join(Tail(parts), sep)

\* the lower-case form of a character
Fold(ch) == CASE ch = "N" -> "n" [] ch = "G" -> "g" [] OTHER -> ch

\* text ILIKE pat: % stands for any run of characters, _ for any one
\* character, every other character for itself in either case
RECURSIVE ILike(_, _)
ILike(text, pat) ==
  IF pat = <<>> THEN text = <<>>
  ELSE IF Head(pat) = "%"
    THEN ILike(text, Tail(pat)) \/ (text # <<>> /\ ILike(Tail(text), pat))
  ELSE /\ text # <<>>
       /\ Head(pat) = "_" \/ Fold(Head(pat)) = Fold(Head(text))
       /\ ILike(Tail(text), Tail(pat))

(***************************************************************************)
(* Postgres.ReadAllWithFilter                                              *)
(***************************************************************************)
\* the WHERE clause built from the filter: one condition per field that is
\* set, joined by AND
Matches(r, f) ==
  /\ f.Name # "" => ILike(Runes(r.name), <<"%">> \o Runes(f.Name) \o <<"%">>)
  /\ f.Group # "" =>
       ILike(Runes(r.group_name), <<"%">> \o Runes(f.Group) \o <<"%">>)
  /\ f.ReleaseDate # ZeroTime => r.release_date = f.ReleaseDate

\* the orders in which the rows of S may come back
Orderings(S) ==
  { q \in [1..Cardinality(S) -> S] :
      \A i, j \in 1..Cardinality(S) : i # j => q[i] # q[j] }

\* ORDER BY created_at DESC
ByCreatedAtDesc(q) ==
  \A i \in 1..(Len(q) - 1) : q[i].created_at >= q[i + 1].created_at

\* LIMIT limit OFFSET offset
LimitOffset(q, limit, offset) ==
  SubSeq(q, offset + 1, IF offset + limit < Len(q) THEN offset + limit ELSE Len(q))

\* the error of the query: Postgres rejects a negative LIMIT or OFFSET
QueryErr(limit, offset, o) ==
  IF o = "fail" \/ (limit # 0 /\ (limit < 0 \/ offset < 0))
    THEN Wrap("repository.SongDB.ReadAllWithFilter", ErrBackend)
    ELSE NoErr

\* the row sequences the query may return: ordered and cut to the page only
\* when limit is not 0
QueryRows(tbl, f, limit, offset) ==
  LET found == { r \in tbl : Matches(r, f) }
  IN IF limit # 0
       THEN { LimitOffset(q, limit, offset) :
                q \in { p \in Orderings(found) : ByCreatedAtDesc(p) } }
       ELSE Orderings(found)

\* what the query may hand back: nothing when it failed
QueryResults(tbl, f, limit, offset, o) ==
  IF QueryErr(limit, offset, o) # NoErr THEN {<<>>}
  ELSE QueryRows(tbl, f, limit, offset)

\* rows.Scan of every row, appended in the order the rows come
ScanRows(q) == [i \in 1..Len(q) |-> ScanRow(q[i])]

(***************************************************************************)
(* The Repository's methods as the Service calls them: the calls of one    *)
(* method from its first to its return, with nothing in between            *)
(***************************************************************************)
\* the state a call starts in
Here == [songs |-> songs, cache |-> cache, now |-> now, nextId |-> nextId]

\* what a call returns and the state it leaves
Result(st, res, e, cs) ==
  [songs |-> st.songs, cache |-> st.cache, now |-> st.now,
   nextId |-> st.nextId, res |-> res, err |-> e, calls |-> cs]

Panic == <<"panic: nil pointer dereference">>

RepositoryCreate(st, s, os) ==
  LET s1 == [s EXCEPT !.ID = st.nextId, !.CreatedAt = st.now,
                      !.UpdatedAt = st.now + 1]
      e1 == IF os[1] = "fail" THEN Wrap("repository.SongDB.Create", ErrBackend)
            ELSE IF RowsWithId(st.songs, s1.ID) # {}
              THEN Wrap("repository.SongDB.Create", ErrSongExists)
              ELSE NoErr
      e2 == IF os[2] = "fail" THEN Wrap("repository.Redis.Set", ErrBackend)
            ELSE NoErr
      st1 == [st EXCEPT !.nextId = st.nextId + 1, !.now = st.now + 2,
                        !.songs = IF e1 = NoErr THEN st.songs \cup {InsertRow(s1)}
                                  ELSE st.songs]
  IN IF s = NoSong THEN Result(st, NoSong, Panic, <<>>)
     ELSE IF StoreFailed(e1)
       THEN Result(st1, NoSong, e1, <<Call("Store.Create", e1)>>)
     ELSE Result([st1 EXCEPT !.cache = IF e2 = NoErr THEN CacheSet(st.cache, s1)
                                       ELSE st.cache],
                 NoSong, e2, <<Call("Store.Create", e1), Call("Cache.Set", e2)>>)

RepositoryRead(st, k, og, os) ==
  LET e1 == IF og = "fail" THEN Wrap("repository.Redis.Get", ErrBackend)
            ELSE IF og = "malformed"
              THEN Wrap("repository.Redis.Get", ErrMalformed)
            ELSE IF RedisKey(k) \notin DOMAIN st.cache
              THEN Wrap("repository.Redis.Get", ErrSongNotFound)
              ELSE NoErr
      found == RowsWithId(st.songs, k.ID)
      e2 == IF os[1] = "fail" THEN Wrap("repository.SongDB.Read", ErrBackend)
            ELSE IF found = {}
              THEN Wrap("repository.SongDB.Read", ErrSongNotFound)
              ELSE NoErr
      s == ScanRow(CHOOSE r \in found : TRUE)
      e3 == IF os[2] = "fail" THEN Wrap("repository.Redis.Set", ErrBackend)
            ELSE NoErr
  IN IF e1 = NoErr
       THEN Result(st, CacheGet(st.cache, k), NoErr, <<Call("Cache.Get", NoErr)>>)
     ELSE IF StoreFailed(e2)
       THEN Result(st, NoSong, e2, <<Call("Cache.Get", e1), Call("Store.Read", e2)>>)
     ELSE IF e3 # NoErr
       THEN Result(st, NoSong, e3,
                   <<Call("Cache.Get", e1), Call("Store.Read", e2),
                     Call("Cache.Set", e3)>>)
     ELSE Result([st EXCEPT !.cache = CacheSet(st.cache, s)], s, NoErr,
                 <<Call("Cache.Get", e1), Call("Store.Read", e2),
                   Call("Cache.Set", e3)>>)

RepositoryReadAllWithFilter(st, f, limit, offset, q, os) ==
  LET e == QueryErr(limit, offset, os[1])
  IN IF e # NoErr
       THEN Result(st, NoSong, e, <<Call("Store.ReadAllWithFilter", e)>>)
       ELSE Result(st, ScanRows(q), NoErr, <<Call("Store.ReadAllWithFilter", e)>>)

RepositoryUpdate(st, k, s, os) ==
  LET s1 == [s EXCEPT !.UpdatedAt = st.now]
      e1 == IF os[1] = "fail" THEN Wrap("repository.SongDB.Update", ErrBackend)
            ELSE IF RowsWithId(st.songs, k.ID) = {}
              THEN Wrap("repository.SongDB.Update", ErrSongNotFound)
              ELSE NoErr
      e2 == IF os[2] = "fail" THEN Wrap("repository.Redis.Set", ErrBackend)
            ELSE NoErr
      st1 == [st EXCEPT !.now = st.now + 1,
                        !.songs = IF e1 = NoErr THEN UpdateRows(st.songs, k.ID, s1)
                                  ELSE st.songs]
  IN IF StoreFailed(e1)
       THEN Result(st1, NoSong, e1, <<Call("Store.Update", e1)>>)
       ELSE Result([st1 EXCEPT !.cache = IF e2 = NoErr THEN CacheSet(st.cache, s1)
                                         ELSE st.cache],
                   NoSong, e2, <<Call("Store.Update", e1), Call("Cache.Set", e2)>>)

RepositoryDelete(st, k, os) ==
  LET e1 == IF os[1] = "fail" THEN Wrap("repository.SongDB.Delete", ErrBackend)
            ELSE IF RowsWithId(st.songs, k.ID) = {}
              THEN Wrap("repository.SongDB.Delete", ErrSongNotFound)
              ELSE NoErr
      e2 == IF os[2] = "fail" THEN Wrap("repository.Redis.Invalidate", ErrBackend)
            ELSE NoErr
      st1 == [st EXCEPT !.songs = IF e1 = NoErr THEN DeleteRows(st.songs, k.ID)
                                  ELSE st.songs]
  IN IF StoreFailed(e1)
       THEN Result(st1, NoSong, e1, <<Call("Store.Delete", e1)>>)
       ELSE Result([st1 EXCEPT !.cache = IF e2 = NoErr
                                           THEN CacheInvalidate(st.cache, k)
                                           ELSE st.cache],
                   NoSong, e2,
                   <<Call("Store.Delete", e1), Call("Cache.Invalidate", e2)>>)

(***************************************************************************)
(* The Service: MusicInfo and Repository behind their interfaces           *)
(***************************************************************************)
\* s.Repo: the cache over the store, or the double of the Service's tests,
\* which returns what it was programmed with and touches nothing
RepoCreate(st, s, os) ==
  IF repo.stub THEN Result(st, NoSong, repo.werr, <<>>)
  ELSE RepositoryCreate(st, s, os)

RepoRead(st, k, og, os) ==
  IF repo.stub THEN Result(st, repo.res, repo.err, <<>>)
  ELSE RepositoryRead(st, k, og, os)

RepoReadAllWithFilter(st, f, limit, offset, q, os) ==
  IF repo.stub THEN Result(st, repo.list, repo.err, <<>>)
  ELSE RepositoryReadAllWithFilter(st, f, limit, offset, q, os)

RepoUpdate(st, k, s, os) ==
  IF repo.stub THEN Result(st, NoSong, repo.werr, <<>>)
  ELSE RepositoryUpdate(st, k, s, os)

RepoDelete(st, k, os) ==
  IF repo.stub THEN Result(st, NoSong, repo.werr, <<>>)
  ELSE RepositoryDelete(st, k, os)

\* the errors of the metadata service
ErrLookup == <<"failed to fetch info">>
ErrBadRequest == <<"HTTPError 400">>

LookupOutcomes == {"ok", "empty", "fail", "bad request"}

\* s.MusicInfo.FetchMusicInfo: the song of that name and group as the
\* metadata service describes it; nil without an error when the description
\* lacks a name, a group or a text
FetchMusicInfo(k, lo) ==
  IF lo = "fail" THEN [res |-> NoSong, err |-> ErrLookup]
  ELSE IF lo = "bad request" THEN [res |-> NoSong, err |-> ErrBadRequest]
  ELSE IF lo = "empty" THEN [res |-> NoSong, err |-> NoErr]
  ELSE [res |-> Song(NilID, k.Name, k.Group,
                     IF k.Name = "n1" THEN "t1" ELSE "a\n\nb", "l1",
                     IF k.Name = "n1" THEN 1 ELSE ZeroTime, ZeroTime, ZeroTime),
        err |-> NoErr]

\* the keys of Service.Add
AddInputs == { SongInfo(NilID, n, "g1") : n \in {"n1", "n2"} }

\* the records of Service.Update: nothing set; name, text and release date
\* set; group and link set, with an id and a creation time of the caller's
PartialInputs ==
  { Song(NilID, "", "", "", "", ZeroTime, ZeroTime, ZeroTime),
    Song(NilID, "N3", "", "a\n\nb", "", 2, ZeroTime, ZeroTime),
    Song(2, "", "G3", "", "l3", ZeroTime, 2, ZeroTime) }

\* the filters, pages and page sizes of Service.GetAllWithFilter
FilterInputs ==
  { Song(NilID, n, "", "", "", ZeroTime, ZeroTime, ZeroTime) : n \in {"", "N"} }
PageInputs == 0..2
PageSizeInputs == 0..2

\* one call of the Service: what it was given and what came back
Called(name, k, s, page, r) ==
  [call |-> name, key |-> k, song |-> s, page |-> page, res |-> r.res,
   err |-> r.err, inner |-> r.calls]

\* the Service is followed for one request less than the Repository alone
MaxServiceRequests == MaxRequests - 1

\* requests of the Service are served one at a time
SvcCanStart ==
  /\ \A w \in Workers : pc[w] = "idle"
  /\ started < MaxServiceRequests
  /\ started' = started + 1

\* the handler returns: r is the state it leaves
SvcReturn(op, k, s, r, res, e, cs) ==
  /\ songs' = r.songs
  /\ cache' = r.cache
  /\ now' = r.now
  /\ nextId' = r.nextId
  /\ held' = held \cup { ScanRow(x) : x \in r.songs }
  /\ last' = [op |-> op, w |-> 0, key |-> k, song |-> s, res |-> res, err |-> e,
              calls |-> cs, n |-> 1 - last.n, prev |-> Summary(last)]
  /\ UNCHANGED <<pc, key, song, todo, calls, storeBy, concurrent, faulty, repo>>

(***************************************************************************)
(* Service.Add                                                             *)
(***************************************************************************)
\* an Add that goes on to the Repository whatever the lookup returned
LookupFailedIgnored(f) == FALSE

\* the check of the lookup's error: if err != nil { ... return }
LookupFailed(f) == f.err # NoErr

ServiceAdd(k) ==
  /\ SvcCanStart
  /\ nextId <= MaxIds
  /\ now + 1 <= MaxClock
  /\ \E lo \in LookupOutcomes, os \in [1..2 -> Outcomes] :
       LET f == FetchMusicInfo(k, lo)
           fc == [call |-> "MusicInfo.FetchMusicInfo", key |-> k, song |-> NoSong,
                  page |-> <<>>, res |-> f.res, err |-> f.err, inner |-> <<>>]
           c == RepoCreate(Here, f.res, os)
           cc == Called("Repository.Create", NoKey, f.res, <<>>, c)
       IN IF LookupFailed(f)
            THEN SvcReturn("Service.Add", k, NoSong, Here, NoSong,
                           IF f.err = ErrBadRequest
                             THEN Wrap("Service.Add: bad request from MusicInfo", f.err)
                             ELSE Wrap("Service.Add: failed to fetch song info", f.err),
                           <<fc>>)
          ELSE IF c.err = Panic
            THEN SvcReturn("Service.Add", k, NoSong, c, NoSong, Panic, <<fc, cc>>)
          ELSE IF c.err # NoErr
            THEN SvcReturn("Service.Add", k, NoSong, c, NoSong,
                           IF Is(c.err, ErrSongExists)
                             THEN Wrap("Service.Add: song already exists", ErrSongExists)
                             ELSE Wrap("Service.Add: failed to save song", c.err),
                           <<fc, cc>>)
          ELSE SvcReturn("Service.Add", k, NoSong, c, NoSong, NoErr, <<fc, cc>>)

(***************************************************************************)
(* Service.Get                                                             *)
(***************************************************************************)
\* a Get that reports every failure of Repo.Read by an error of its own
GetReturnOpaque(r) ==
  IF r.err = NoErr THEN r
  ELSE [r EXCEPT !.res = NoSong, !.err = <<"Service.Get: failed to read song">>]

\* what Service.Get makes of the return of Repo.Read
GetReturn(r) ==
  IF r.err = NoErr THEN r
  ELSE [r EXCEPT !.res = NoSong,
                 !.err = IF Is(r.err, ErrSongNotFound)
                           THEN Wrap("Service.Get: song not found", ErrSongNotFound)
                           ELSE Wrap("Service.Get: failed to read song", r.err)]

ServiceGet(k) ==
  /\ SvcCanStart
  /\ \E og \in GetOutcomes(cache, k), os \in [1..2 -> Outcomes] :
       LET r == RepoRead(Here, k, og, os)
           g == GetReturn(r)
       IN SvcReturn("Service.Get", k, NoSong, g, g.res, g.err,
                    <<Called("Repository.Read", k, NoSong, <<>>, r)>>)

(***************************************************************************)
(* Service.Update: Service.Get, mergeSongs, Repo.Update                    *)
(***************************************************************************)
mergeSongs(updatedSong, targetSong, t) ==
  [ID |-> targetSong.ID,
   Name |-> IF updatedSong.Name = "" THEN targetSong.Name ELSE updatedSong.Name,
   Group |-> IF updatedSong.Group = "" THEN targetSong.Group
             ELSE updatedSong.Group,
   Text |-> IF updatedSong.Text = "" THEN targetSong.Text ELSE updatedSong.Text,
   Link |-> IF updatedSong.Link = "" THEN targetSong.Link ELSE updatedSong.Link,
   ReleaseDate |-> IF updatedSong.ReleaseDate = ZeroTime
                     THEN targetSong.ReleaseDate ELSE updatedSong.ReleaseDate,
   CreatedAt |-> IF updatedSong.CreatedAt = ZeroTime THEN targetSong.CreatedAt
                 ELSE updatedSong.CreatedAt,
   UpdatedAt |-> t]

ServiceUpdate(k, s) ==
  /\ SvcCanStart
  /\ now + 1 <= MaxClock
  /\ \E og \in GetOutcomes(cache, k), os \in [1..4 -> Outcomes] :
       LET r == RepoRead(Here, k, og, os)
           g == GetReturn(r)
           gc == Called("Repository.Read", k, NoSong, <<>>, r)
           mergedSong == mergeSongs(s, g.res, g.now)
           u == RepoUpdate([g EXCEPT !.now = g.now + 1], k, mergedSong,
                           <<os[3], os[4]>>)
           uc == Called("Repository.Update", k, mergedSong, <<>>, u)
       IN IF g.err # NoErr
            THEN SvcReturn("Service.Update", k, s, g, NoSong,
                           Wrap("Service.Update", g.err), <<gc>>)
          ELSE IF u.err # NoErr
            THEN SvcReturn("Service.Update", k, s, u, NoSong,
                           IF Is(u.err, ErrSongNotFound)
                             THEN Wrap("Service.Update: song not found",
                                       ErrSongNotFound)
                             ELSE Wrap("Service.Update: failed to update song", u.err),
                           <<gc, uc>>)
          ELSE SvcReturn("Service.Update", k, s, u, NoSong, NoErr, <<gc, uc>>)

(***************************************************************************)
(* Service.Delete                                                          *)
(***************************************************************************)
ServiceDelete(k) ==
  /\ SvcCanStart
  /\ \E os \in [1..2 -> Outcomes] :
       LET d == RepoDelete(Here, k, os)
       IN SvcReturn("Service.Delete", k, NoSong, d, NoSong,
                    IF d.err = NoErr THEN NoErr
                    ELSE IF Is(d.err, ErrSongNotFound)
                      THEN Wrap("Service.Delete: song not found", ErrSongNotFound)
                      ELSE Wrap("Service.Delete: failed to delete song", d.err),
                    <<Called("Repository.Delete", k, NoSong, <<>>, d)>>)

(***************************************************************************)
(* Service.GetAllWithFilter                                                *)
(***************************************************************************)
\* an offset that counts pages from zero
OffsetFromZero(page, pageSize) == page * pageSize

\* offset := (page - 1) * pageSize
Offset(page, pageSize) == (page - 1) * pageSize

\* the arguments of a list request
ListRequest(page, pageSize) ==
  [ID |-> NilID, Name |-> "", Group |-> "", page |-> page, pageSize |-> pageSize]

ServiceGetAllWithFilter(f, page, pageSize) ==
  /\ SvcCanStart
  /\ LET offset == Offset(page, pageSize)
     IN \E os \in [1..1 -> Outcomes] :
          \E q \in QueryResults(songs, f, pageSize, offset, os[1]) :
            LET r == RepoReadAllWithFilter(Here, f, pageSize, offset, q, os)
            IN SvcReturn("Service.GetAllWithFilter", ListRequest(page, pageSize), f, r,
                         IF r.err = NoErr THEN r.res ELSE NoSong,
                         IF r.err = NoErr THEN NoErr
                         ELSE Wrap("Service.GetAllWithFilter: failed to fetch songs with filter",
                                   r.err),
                         <<Called("Repository.ReadAllWithFilter", NoKey, f,
                                  <<pageSize, offset>>, r)>>)

(***************************************************************************)
(* Service.GetPaginatedText                                                *)
(***************************************************************************)
ServiceGetPaginatedText(k) ==
  /\ SvcCanStart
  /\ \E og \in GetOutcomes(cache, k), os \in [1..2 -> Outcomes] :
       LET r == RepoRead(Here, k, og, os)
           rc == Called("Repository.Read", k, NoSong, <<>>, r)
       IN IF r.err # NoErr
            THEN SvcReturn("Service.GetPaginatedText", k, NoSong, r, NoSong,
                           IF r.err = ErrSongNotFound
                             THEN Wrap("Service.GetPaginatedText: song not found",
                                       ErrSongNotFound)
                             ELSE Wrap("Service.GetPaginatedText: failed to fetch song",
                                       r.err),
                           <<rc>>)
          ELSE IF r.res.Text = ""
            THEN SvcReturn("Service.GetPaginatedText", k, NoSong, r, NoSong,
                           <<"Service.GetPaginatedText: song text is empty">>, <<rc>>)
          ELSE SvcReturn("Service.GetPaginatedText", k, NoSong, r,
                         Split(Runes(r.res.Text), <<"\n", "\n">>), NoErr, <<rc>>)

(***************************************************************************)
(* The Service over the Repository, and over the double of its tests       *)
(***************************************************************************)
\* the songs and errors the double is programmed with
StubSongs ==
  { Song(1, "n1", "g1", t, "l1", 1, 1, 2) :
      t \in {"", "t1", "a\n\nb", "a\n\n\nb\n\n", "\n\n"} }

StubErrors ==
  { ErrSongNotFound, Wrap("repository.SongDB.Read", ErrSongNotFound),
    ErrSongExists, Wrap("repository.SongDB.Create", ErrSongExists), ErrBackend }

\* a double returns what each of its methods was programmed with: the reads
\* a song or an error, the writes an error or nil
StubReturns ==
  { [stub |-> TRUE, res |-> s, list |-> <<s>>, err |-> NoErr, werr |-> e] :
      s \in StubSongs, e \in {NoErr} \cup StubErrors }
  \cup { [stub |-> TRUE, res |-> NoSong, list |-> <<>>, err |-> e, werr |-> e] :
           e \in StubErrors }

ServiceNext ==
  \/ \E k \in AddInputs : ServiceAdd(k)
  \/ \E k \in KeyInputs : ServiceGet(k)
  \/ \E k \in KeyInputs, s \in PartialInputs : ServiceUpdate(k, s)
  \/ \E k \in KeyInputs : ServiceDelete(k)
  \/ \E f \in FilterInputs, page \in PageInputs, pageSize \in PageSizeInputs :
       ServiceGetAllWithFilter(f, page, pageSize)
  \/ \E k \in KeyInputs : ServiceGetPaginatedText(k)

\* the Service over the cache-over-store Repository, backends may fail
ServiceSpec == SeqFaultInit /\ [][ServiceNext]_vars

\* the Service over a double programmed with one return
StubInit ==
  /\ songs = {}
  /\ cache = [x \in {} |-> NoSong]
  /\ now = 1
  /\ nextId = 1
  /\ pc = [w \in Workers |-> "idle"]
  /\ key = [w \in Workers |-> NoKey]
  /\ song = [w \in Workers |-> NoSong]
  /\ todo = [w \in Workers |-> {}]
  /\ calls = [w \in Workers |-> <<>>]
  /\ last = NoRequest
  /\ started = 0
  /\ held = {}
  /\ storeBy = [k \in KeyIds |-> 0]
  /\ concurrent = FALSE
  /\ faulty = FALSE
  /\ repo \in StubReturns

ServiceStubSpec == StubInit /\ [][ServiceNext]_vars

(***************************************************************************)
(* The store alone: the methods of Postgres, one request at a time         *)
(***************************************************************************)
\* the store alone is followed one tick longer than the Repository
MaxStoreClock == MaxClock + 1

\* the songs given to Postgres.Create and Postgres.Update
StoreSongs ==
  { Song(NilID, c[1], c[2], "t1", "l1", c[3], ZeroTime, ZeroTime) :
      c \in {<<"n1", "g1", 1>>, <<"N3", "g1", ZeroTime>>,
             <<"n1", "G3", ZeroTime>>, <<"", "", 1>>} }

\* the filters, limits and offsets given to Postgres.ReadAllWithFilter
StoreFilters ==
  { Song(NilID, c[1], c[2], "", "", c[3], ZeroTime, ZeroTime) :
      c \in {<<"", "", ZeroTime>>, <<"N", "", ZeroTime>>, <<"1", "g1", ZeroTime>>,
             <<"_", "", ZeroTime>>, <<"%", "", ZeroTime>>, <<"", "g1", 1>>} }
LimitInputs == 0..2
OffsetInputs == 0..1

\* a request that writes: these are counted
StoreCanStart ==
  /\ \A w \in Workers : pc[w] = "idle"
  /\ started < MaxRequests
  /\ started' = started + 1

\* a request that reads: it leaves the table as it is, and any number of
\* them may be served
StoreCanRead ==
  /\ \A w \in Workers : pc[w] = "idle"
  /\ UNCHANGED started

\* the method returns: tbl is the table it leaves
StoreReturn(op, k, s, tbl, t, id, res, e) ==
  /\ songs' = tbl
  /\ now' = t
  /\ nextId' = id
  /\ held' = held \cup { ScanRow(x) : x \in tbl }
  /\ last' = [op |-> op, w |-> 0, key |-> k, song |-> s, res |-> res, err |-> e,
              calls |-> <<>>, n |-> 1 - last.n, prev |-> NoRequest.prev]
  /\ UNCHANGED <<cache, pc, key, song, todo, calls, storeBy, concurrent, faulty,
                 repo>>

PostgresCreate(s) ==
  /\ StoreCanStart
  /\ nextId <= MaxIds
  /\ now + 1 <= MaxStoreClock
  /\ \E o \in Outcomes :
       LET s1 == [s EXCEPT !.ID = nextId, !.CreatedAt = now, !.UpdatedAt = now + 1]
           e == IF o = "fail" THEN Wrap("repository.SongDB.Create", ErrBackend)
                ELSE IF RowsWithId(songs, s1.ID) # {}
                  THEN Wrap("repository.SongDB.Create", ErrSongExists)
                  ELSE NoErr
       IN StoreReturn("Store.Create", NoKey, s1,
                      IF e = NoErr THEN songs \cup {InsertRow(s1)} ELSE songs,
                      now + 2, nextId + 1, NoSong, e)

PostgresRead(k) ==
  /\ StoreCanRead
  /\ \E o \in Outcomes :
       LET found == RowsWithId(songs, k.ID)
           e == IF o = "fail" THEN Wrap("repository.SongDB.Read", ErrBackend)
                ELSE IF found = {}
                  THEN Wrap("repository.SongDB.Read", ErrSongNotFound)
                  ELSE NoErr
       IN StoreReturn("Store.Read", k, NoSong, songs, now, nextId,
                      IF e = NoErr THEN ScanRow(CHOOSE r \in found : TRUE)
                      ELSE NoSong, e)

\* the arguments of a list query
QueryRequest(limit, offset) ==
  [ID |-> NilID, Name |-> "", Group |-> "", limit |-> limit, offset |-> offset]

PostgresReadAllWithFilter(f, limit, offset) ==
  /\ StoreCanRead
  /\ \E o \in Outcomes :
       \E q \in QueryResults(songs, f, limit, offset, o) :
         LET e == QueryErr(limit, offset, o)
         IN StoreReturn("Store.ReadAllWithFilter",
                        QueryRequest(limit, offset), f, songs, now, nextId,
                        IF e = NoErr THEN ScanRows(q) ELSE NoSong, e)

PostgresUpdate(k, s) ==
  /\ StoreCanStart
  /\ now <= MaxStoreClock
  /\ \E o \in Outcomes :
       LET s1 == [s EXCEPT !.UpdatedAt = now]
           e == IF o = "fail" THEN Wrap("repository.SongDB.Update", ErrBackend)
                ELSE IF RowsWithId(songs, k.ID) = {}
                  THEN Wrap("repository.SongDB.Update", ErrSongNotFound)
                  ELSE NoErr
       IN StoreReturn("Store.Update", k, s1,
                      IF e = NoErr THEN UpdateRows(songs, k.ID, s1) ELSE songs,
                      now + 1, nextId, NoSong, e)

PostgresDelete(k) ==
  /\ StoreCanStart
  /\ \E o \in Outcomes :
       LET e == IF o = "fail" THEN Wrap("repository.SongDB.Delete", ErrBackend)
                ELSE IF RowsWithId(songs, k.ID) = {}
                  THEN Wrap("repository.SongDB.Delete", ErrSongNotFound)
                  ELSE NoErr
       IN StoreReturn("Store.Delete", k, NoSong,
                      IF e = NoErr THEN DeleteRows(songs, k.ID) ELSE songs,
                      now, nextId, NoSong, e)

StoreNext ==
  \/ \E s \in StoreSongs : PostgresCreate(s)
  \/ \E k \in KeyInputs : PostgresRead(k)
  \/ \E k \in KeyInputs, s \in StoreSongs : PostgresUpdate(k, s)
  \/ \E k \in KeyInputs : PostgresDelete(k)

StoreSpec == SeqFaultInit /\ [][StoreNext]_vars

\* the tables the list query is put to: each id is free or holds one of the
\* songs, as the Create that handed out the id wrote it
QueryTables ==
  { { InsertRow([h[i] EXCEPT !.ID = i, !.CreatedAt = 2 * i - 1,
                             !.UpdatedAt = 2 * i]) :
        i \in { j \in Ids : h[j] # NoSong } } :
      h \in [Ids -> StoreSongs \cup {NoSong}] }

QueryInit ==
  /\ songs \in QueryTables
  /\ cache = [x \in {} |-> NoSong]
  /\ now = 2 * MaxIds + 1
  /\ nextId = MaxIds + 1
  /\ pc = [w \in Workers |-> "idle"]
  /\ key = [w \in Workers |-> NoKey]
  /\ song = [w \in Workers |-> NoSong]
  /\ todo = [w \in Workers |-> {}]
  /\ calls = [w \in Workers |-> <<>>]
  /\ last = NoRequest
  /\ started = 0
  /\ held = { ScanRow(r) : r \in songs }
  /\ storeBy = [k \in KeyIds |-> 0]
  /\ concurrent = FALSE
  /\ faulty = TRUE
  /\ repo = NewRepository

QueryNext ==
  \E f \in StoreFilters, limit \in LimitInputs, offset \in OffsetInputs :
    PostgresReadAllWithFilter(f, limit, offset)

\* the list query put to every table
QuerySpec == QueryInit /\ [][QueryNext]_vars

(***************************************************************************)
(* Claims about the Service                                                *)
(***************************************************************************)
\* the calls of the request that returns which went to callee name
CallsTo(name) ==
  { i \in 1..Len(last'.calls) : last'.calls[i].call = name }

\* the calls of the request that returns which went to the Repository
RepositoryCalls ==
  { i \in 1..Len(last'.calls) :
      last'.calls[i].call \in {"Repository.Create", "Repository.Read",
                               "Repository.ReadAllWithFilter",
                               "Repository.Update", "Repository.Delete"} }

\* e wraps cause: cause is what is left of e under its wrappers
Wraps(e, cause) ==
  /\ Len(e) > Len(cause)
  /\ SubSeq(e, Len(e) - Len(cause) + 1, Len(e)) = cause

\* C21: Service.Add calls the metadata lookup exactly once, and before any
\* call of the Repository; when the lookup fails, Repository.Create is not
\* called, store and cache stay as they were, and Add returns an error that
\* wraps the lookup's error.
C21_LookupBeforeCreate ==
  [][(Returned /\ last'.op = "Service.Add") =>
       /\ CallsTo("MusicInfo.FetchMusicInfo") = {1}
       /\ \A i \in RepositoryCalls : i > 1
       /\ last'.calls[1].err # NoErr =>
            /\ CallsTo("Repository.Create") = {}
            /\ songs' = songs
            /\ cache' = cache
            /\ Wraps(last'.err, last'.calls[1].err)]_vars

\* an Add whose lookup failed has returned while the store and the cache
\* hold a song
C21_Witness ==
  /\ last.op = "Service.Add"
  /\ Len(last.calls) = 1
  /\ last.calls[1].err = ErrLookup
  /\ songs # {}
  /\ DOMAIN cache # {}

\* the record a field of which is incoming when set and current otherwise
Incoming(inc, cur, zero) == IF inc # zero THEN inc ELSE cur

\* C22: the record Service.Update passes to Repository.Update has each of
\* name, group, text, link and release date from the incoming record when it
\* is set there and from the current record otherwise; its id and creation
\* time are the current record's whatever the caller supplied; its update
\* time is the time of the request.
C22_MergedRecord ==
  [][(Returned /\ last'.op = "Service.Update"
        /\ CallsTo("Repository.Update") # {}) =>
       LET cur == last'.calls[1].res
           inc == last'.song
           passed == last'.calls[2].song
       IN /\ passed.Name = Incoming(inc.Name, cur.Name, "")
          /\ passed.Group = Incoming(inc.Group, cur.Group, "")
          /\ passed.Text = Incoming(inc.Text, cur.Text, "")
          /\ passed.Link = Incoming(inc.Link, cur.Link, "")
          /\ passed.ReleaseDate =
               Incoming(inc.ReleaseDate, cur.ReleaseDate, ZeroTime)
          /\ passed.ID = cur.ID
          /\ passed.CreatedAt = cur.CreatedAt
          /\ passed.UpdatedAt = now]_vars

\* C23: a Service.Update of key K whose record leaves the release date (and
\* the creation time) unset keeps the release date and the creation time the
\* store held for K, in the store and in the cache, whether the current
\* record came from the cache or from the store.
C23_MergePathIndependent ==
  [][(Returned /\ last'.op = "Service.Update" /\ last'.err = NoErr
        /\ last'.song.ReleaseDate = ZeroTime
        /\ last'.song.CreatedAt = ZeroTime) =>
       \A r \in RowsWithId(songs, last'.key.ID) :
         /\ \A x \in RowsWithId(songs', last'.key.ID) :
              x.release_date = r.release_date /\ x.created_at = r.created_at
         /\ last'.key.ID \in DOMAIN cache'
         /\ UnmarshalDTO(cache'[last'.key.ID]).ReleaseDate = r.release_date
         /\ UnmarshalDTO(cache'[last'.key.ID]).CreatedAt = r.created_at]_vars

\* the Service methods that look a song up by key
KeyedOps ==
  {"Service.Get", "Service.Update", "Service.Delete", "Service.GetPaginatedText"}

\* C24: when a call of the Repository returns NotFound to Service.Get,
\* Update, Delete or GetPaginatedText, or AlreadyExists to Service.Add, bare
\* or wrapped, the error the Service returns is of that kind for errors.Is;
\* when the read that opens Service.Update fails, Repository.Update is not
\* called.
C24_KindsSurviveWrapping ==
  [][Returned =>
       /\ \A i \in RepositoryCalls :
            /\ (last'.op \in KeyedOps /\ Is(last'.calls[i].err, ErrSongNotFound))
                 => Is(last'.err, ErrSongNotFound)
            /\ (last'.op = "Service.Add" /\ Is(last'.calls[i].err, ErrSongExists))
                 => Is(last'.err, ErrSongExists)
       /\ (last'.op = "Service.Update" /\ last'.calls[1].err # NoErr)
            => CallsTo("Repository.Update") = {}]_vars

\* GetPaginatedText has returned NotFound after the Repository returned the
\* sentinel wrapped
C24_Witness ==
  /\ last.op = "Service.GetPaginatedText"
  /\ last.calls[1].err = Wrap("repository.SongDB.Read", ErrSongNotFound)
  /\ Is(last.err, ErrSongNotFound)

\* the separator of verses: a blank line
BlankLine == <<"\n", "\n">>

\* C25: GetPaginatedText returns the text of the song split at every blank
\* line, in order: no verse holds a blank line and the verses joined by blank
\* lines are the text; an empty text fails with the error "song text is
\* empty", which is not NotFound; a missing song fails with NotFound.
C25_VersesOfText ==
  [][(Returned /\ last'.op = "Service.GetPaginatedText") =>
       LET read == last'.calls[1]
       IN /\ (read.err = NoErr /\ read.res.Text # "") =>
               /\ last'.err = NoErr
               /\ Join(last'.res, BlankLine) = Runes(read.res.Text)
               /\ \A i \in 1..Len(last'.res) : Index(last'.res[i], BlankLine) = 0
          /\ (read.err = NoErr /\ read.res.Text = "") =>
               /\ last'.err = <<"Service.GetPaginatedText: song text is empty">>
               /\ ~Is(last'.err, ErrSongNotFound)
          /\ Is(read.err, ErrSongNotFound) => Is(last'.err, ErrSongNotFound)]_vars

\* a text of three verses, the last of them empty, has been returned
C25_Witness ==
  /\ last.op = "Service.GetPaginatedText"
  /\ last.err = NoErr
  /\ Len(last.res) = 3
  /\ last.res[3] = <<>>

\* C26: Service.GetAllWithFilter calls Repository.ReadAllWithFilter exactly
\* once, with the filter it was given, limit = pageSize and
\* offset = (page - 1) * pageSize; it returns the list the Repository
\* returned, or the Repository's error wrapped; the request neither reads nor
\* writes the cache.
C26_ListDelegates ==
  [][(Returned /\ last'.op = "Service.GetAllWithFilter") =>
       LET list == last'.calls[1]
       IN /\ Len(last'.calls) = 1
          /\ list.call = "Repository.ReadAllWithFilter"
          /\ list.song = last'.song
          /\ list.page = <<last'.key.pageSize,
                           (last'.key.page - 1) * last'.key.pageSize>>
          /\ list.err = NoErr => (last'.err = NoErr /\ last'.res = list.res)
          /\ list.err # NoErr => Wraps(last'.err, list.err)
          /\ \A i \in 1..Len(list.inner) :
               list.inner[i].call = "Store.ReadAllWithFilter"
          /\ cache' = cache]_vars

\* a list request for the second page of size one has returned the empty
\* list while the store holds one song and the cache its entry
C26_Witness ==
  /\ last.op = "Service.GetAllWithFilter"
  /\ last.err = NoErr
  /\ last.key.page = 2
  /\ last.calls[1].page = <<1, 1>>
  /\ last.res = <<>>
  /\ Cardinality(songs) = 1
  /\ DOMAIN cache # {}

(***************************************************************************)
(* Claims about the store                                                  *)
(***************************************************************************)
\* the rows of tbl other than the row of id
RowsBeside(tbl, id) == { r \in tbl : r.id # id }

\* the row an Update of s leaves in place of row r
Replaced(r, s) ==
  [id |-> r.id, name |-> s.Name, group_name |-> s.Group, text |-> s.Text,
   link |-> s.Link, release_date |-> s.ReleaseDate, created_at |-> r.created_at,
   updated_at |-> s.UpdatedAt]

\* C27: Store.Update and Store.Delete of an id that has no row return NotFound
\* and leave every row as it was; of an id that has a row they replace,
\* respectively remove, that row and leave every other row as it was.
C27_OneRowAffected ==
  [][(Returned /\ last'.op \in {"Store.Update", "Store.Delete"}
        /\ ~Is(last'.err, ErrBackend)) =>
       IF RowsWithId(songs, last'.key.ID) = {}
         THEN Is(last'.err, ErrSongNotFound) /\ songs' = songs
         ELSE /\ last'.err = NoErr
              /\ RowsBeside(songs', last'.key.ID) = RowsBeside(songs, last'.key.ID)
              /\ RowsWithId(songs', last'.key.ID) =
                   IF last'.op = "Store.Delete" THEN {}
                   ELSE { Replaced(r, last'.song) :
                            r \in RowsWithId(songs, last'.key.ID) }]_vars

\* a Delete has removed one of two rows
C27_Witness ==
  /\ last.op = "Store.Delete"
  /\ last.err = NoErr
  /\ Cardinality(songs) = 1
  /\ nextId = 3

\* C28: Store.Update sets name, group, text, link and release date of the row
\* to the values of the record it is given, set or not, and the update time
\* to the time of the call; it changes neither the id nor the creation time
\* of the row: the creation time is the time of the Create that wrote the row,
\* in every later state of the row.
C28_UpdateFrame ==
  [][/\ \A r \in songs, x \in songs' : x.id = r.id => x.created_at = r.created_at
     /\ (Returned /\ last'.op = "Store.Create" /\ last'.err = NoErr) =>
          \A x \in RowsWithId(songs', last'.song.ID) : x.created_at = now
     /\ (Returned /\ last'.op = "Store.Update" /\ last'.err = NoErr) =>
          /\ RowsWithId(songs', last'.key.ID) # {}
          /\ \A x \in RowsWithId(songs', last'.key.ID) :
               /\ x.name = last'.song.Name
               /\ x.group_name = last'.song.Group
               /\ x.text = last'.song.Text
               /\ x.link = last'.song.Link
               /\ x.release_date = last'.song.ReleaseDate
               /\ x.updated_at = now
               /\ \A r \in RowsWithId(songs, last'.key.ID) :
                    x.updated_at > r.updated_at]_vars

\* a row has been updated twice, the second time with a record that sets
\* neither name nor group
C28_Witness ==
  /\ last.op = "Store.Update"
  /\ last.err = NoErr
  /\ last.song.Name = ""
  /\ Cardinality({ h \in held : h.ID = last.key.ID }) = 3

\* s in lower case
FoldAll(s) == [i \in 1..Len(s) |-> Fold(s[i])]

\* sub occurs in text, letters compared without regard to case
Contains(text, sub) == Index(FoldAll(text), FoldAll(sub)) # 0

\* s satisfies every field of filter f that is set
Satisfies(s, f) ==
  /\ f.Name # "" => Contains(Runes(s.Name), Runes(f.Name))
  /\ f.Group # "" => Contains(Runes(s.Group), Runes(f.Group))
  /\ f.ReleaseDate # ZeroTime => s.ReleaseDate = f.ReleaseDate

\* C29: the songs Store.ReadAllWithFilter returns satisfy every field of the
\* filter that is set: the name contains filter.name and the group contains
\* filter.group without regard to case, whatever the filter strings are, and
\* the release date equals filter.release_date; a field that is not set does
\* not filter; without a limit exactly the songs that satisfy the filter are
\* returned.
C29_FilterExact ==
  [][(Returned /\ last'.op = "Store.ReadAllWithFilter" /\ last'.err = NoErr) =>
       LET got == { last'.res[i] : i \in 1..Len(last'.res) }
           want == { s \in { ScanRow(r) : r \in songs } : Satisfies(s, last'.song) }
       IN /\ got \subseteq want
          /\ last'.key.limit = 0 => got = want]_vars

\* the songs of the rows the filter of the request selects, newest first
NewestFirst ==
  CHOOSE q \in Orderings({ r \in songs : Matches(r, last'.song) }) :
    ByCreatedAtDesc(q)

\* C30: the songs Store.ReadAllWithFilter returns are in descending order of
\* creation time for every limit, limit 0 included, where all selected songs
\* are returned; with a limit above 0 the result is the songs at positions
\* offset .. offset + limit - 1 of that order, at most limit of them.
C30_NewestFirst ==
  [][(Returned /\ last'.op = "Store.ReadAllWithFilter" /\ last'.err = NoErr) =>
       LET limit == last'.key.limit
           offset == last'.key.offset
       IN /\ \A i \in 1..(Len(last'.res) - 1) :
               last'.res[i].CreatedAt >= last'.res[i + 1].CreatedAt
          /\ limit = 0 => Len(last'.res) = Len(NewestFirst)
          /\ limit > 0 =>
               /\ Len(last'.res) <= limit
               /\ last'.res = ScanRows(LimitOffset(NewestFirst, limit, offset))]_vars

(***************************************************************************)
(* The cache alone: the methods of Redis, one request at a time            *)
(***************************************************************************)
\* the songs given to Redis.Set, as Store.Create and Store.Read hand them on
CacheSongs ==
  { Song(i, c[1], "g1", c[2], "l1", c[3], 1, 2) :
      i \in Ids, c \in {<<"n1", "t1", 1>>, <<"n2", "", ZeroTime>>} }

\* the method returns: c is the keyspace it leaves, cs the Redis command it sent
CacheReturn(op, k, s, c, res, e, cs) ==
  /\ cache' = c
  /\ last' = [op |-> op, w |-> 0, key |-> k, song |-> s, res |-> res, err |-> e,
              calls |-> cs, n |-> 1 - last.n, prev |-> NoRequest.prev]
  /\ UNCHANGED <<songs, now, nextId, pc, key, song, todo, calls, held, storeBy,
                 concurrent, faulty, repo>>

\* Redis.Set
RedisSetSong(s) ==
  /\ StoreCanStart
  /\ \E o \in Outcomes :
       LET e == IF o = "fail" THEN Wrap("repository.Redis.Set", ErrBackend)
                ELSE NoErr
       IN CacheReturn("Cache.Set", NoKey, s,
                      IF e = NoErr THEN CacheSet(cache, s) ELSE cache,
                      NoSong, e,
                      <<Call("SET", IF o = "fail" THEN ErrBackend ELSE NoErr)>>)

\* the commands of one Redis.Get, each with the error it returned: GET, and
\* json.Unmarshal of the payload when GET returned one
ErrRedisNil == <<"redis.Nil">>

GetCalls(c, k, o) ==
  IF o = "fail" THEN <<Call("GET", ErrBackend)>>
  ELSE IF RedisKey(k) \notin DOMAIN c THEN <<Call("GET", ErrRedisNil)>>
  ELSE <<Call("GET", NoErr),
         Call("json.Unmarshal", IF o = "malformed" THEN ErrMalformed ELSE NoErr)>>

\* a Get that reports every failure as a miss
RedisGetMissOnError(k) ==
  /\ StoreCanRead
  /\ \E o \in GetOutcomes(cache, k) :
       LET e == IF o # "ok" \/ RedisKey(k) \notin DOMAIN cache
                  THEN Wrap("repository.Redis.Get", ErrSongNotFound)
                  ELSE NoErr
       IN CacheReturn("Cache.Get", k, NoSong, cache,
                      IF e = NoErr THEN CacheGet(cache, k) ELSE NoSong, e,
                      GetCalls(cache, k, o))

\* Redis.Get
RedisGet(k) ==
  /\ StoreCanRead
  /\ \E o \in GetOutcomes(cache, k) :
       LET e == IF o = "fail" THEN Wrap("repository.Redis.Get", ErrBackend)
                ELSE IF RedisKey(k) \notin DOMAIN cache
                  THEN Wrap("repository.Redis.Get", ErrSongNotFound)
                ELSE IF o = "malformed"
                  THEN Wrap("repository.Redis.Get", ErrMalformed)
                  ELSE NoErr
       IN CacheReturn("Cache.Get", k, NoSong, cache,
                      IF e = NoErr THEN CacheGet(cache, k) ELSE NoSong, e,
                      GetCalls(cache, k, o))

\* Redis.Invalidate
RedisInvalidate(k) ==
  /\ StoreCanStart
  /\ \E o \in Outcomes :
       LET e == IF o = "fail" THEN Wrap("repository.Redis.Invalidate", ErrBackend)
                ELSE NoErr
       IN CacheReturn("Cache.Invalidate", k, NoSong,
                      IF e = NoErr THEN CacheInvalidate(cache, k) ELSE cache,
                      NoSong, e,
                      <<Call("DEL", IF o = "fail" THEN ErrBackend ELSE NoErr)>>)

CacheNext ==
  \/ \E s \in CacheSongs : RedisSetSong(s)
  \/ \E k \in KeyInputs : RedisGet(k)
  \/ \E k \in KeyInputs : RedisInvalidate(k)

CacheSpec == SeqFaultInit /\ [][CacheNext]_vars

(***************************************************************************)
(* Claims about the cache                                                  *)
(***************************************************************************)
\* the last song Redis.Set wrote under the id, read back from its payload
\* field by field
LastSet(c, id) == DTOToSong(UnmarshalDTO(c[id]))

\* C31: Cache.Set(song) writes the song under its id, replacing the entry the
\* id had and no other; a Cache.Get of the id that succeeds returns a record
\* equal in every field to the last song set; and an entry changes or goes
\* only by a Set or an Invalidate for its id (nothing expires).
C31_SetThenGet ==
  [][ /\ (Returned /\ last'.op = "Cache.Set" /\ last'.err = NoErr)
        => /\ last'.song.ID \in DOMAIN cache'
           /\ LastSet(cache', last'.song.ID) = last'.song
           /\ DOMAIN cache' = DOMAIN cache \cup {last'.song.ID}
      /\ (Returned /\ last'.op = "Cache.Get" /\ last'.err = NoErr)
        => last'.res = LastSet(cache, last'.key.ID)
      /\ \A i \in DOMAIN cache :
           (i \notin DOMAIN cache' \/ cache'[i] # cache[i])
             => /\ Returned
                /\ \/ last'.op = "Cache.Set" /\ last'.song.ID = i
                   \/ last'.op = "Cache.Invalidate" /\ last'.key.ID = i ]_vars

\* the Redis command or the decoding that failed in the request that returns
Failed(name, e) ==
  \E i \in 1..Len(last'.calls) :
    last'.calls[i].call = name /\ last'.calls[i].err = e

\* C32: Cache.Get returns an error of kind NotFound exactly when the backend
\* answers and the key is absent; when the backend fails or the payload found
\* cannot be decoded it returns an error that is not NotFound; and
\* Cache.Invalidate of an absent key succeeds and leaves the cache as it is.
C32_GetErrorKinds ==
  [][ /\ (Returned /\ last'.op = "Cache.Get")
        => /\ cache' = cache
           /\ IF Failed("GET", ErrBackend) \/ Failed("json.Unmarshal", ErrMalformed)
                THEN last'.err # NoErr /\ ~Is(last'.err, ErrSongNotFound)
                ELSE Is(last'.err, ErrSongNotFound)
                       <=> RedisKey(last'.key) \notin DOMAIN cache
           /\ Is(last'.err, ErrSongNotFound)
                => RedisKey(last'.key) \notin DOMAIN cache
           /\ (last'.err = NoErr) <=> (last'.res # NoSong)
      /\ (/\ Returned /\ last'.op = "Cache.Invalidate"
          /\ RedisKey(last'.key) \notin DOMAIN cache
          /\ ~Failed("DEL", ErrBackend))
        => last'.err = NoErr /\ cache' = cache ]_vars

\* a Get of a key that is present returned the decoding error
C32_Witness ==
  /\ last.op = "Cache.Get"
  /\ RedisKey(last.key) \in DOMAIN cache
  /\ Is(last.err, ErrMalformed)
  /\ ~Is(last.err, ErrSongNotFound)

(***************************************************************************)
(* The HTTP handlers over the Service                                      *)
(***************************************************************************)
StatusOK == 200
StatusCreated == 201
StatusBadRequest == 400
StatusNotFound == 404
StatusInternalServerError == 500

ErrInvalidRequest == <<"invalid request">>

\* the {id} path parameters: the string form of an id, or something else
IdParams == { <<"uuid", i>> : i \in Ids } \cup { <<"x">> }

\* uuid.Parse(idParam)
ParseUUID(p) ==
  IF Len(p) = 2 /\ p[1] = "uuid" THEN [id |-> p[2], err |-> NoErr]
  ELSE [id |-> NilID, err |-> <<"invalid UUID">>]

\* the request bodies as json.Decode reads them into dto.AddSongRequest and
\* dto.UpdateSongRequest: a body that is not JSON, or the members it carries
Body(name, group, text, link) ==
  [err |-> NoErr, Name |-> name, Group |-> group, Text |-> text, Link |-> link]

BadBody ==
  [err |-> <<"invalid character">>, Name |-> "", Group |-> "", Text |-> "",
   Link |-> ""]

AddBodies ==
  { Body(n, g, "", "") : n \in {"", "n1", "n2"}, g \in {"", "g1"} } \cup {BadBody}

UpdateBodies ==
  { Body("", "", "", ""), Body("N3", "", "a\n\nb", ""), Body("", "G3", "", "l3"),
    BadBody }

\* the query parameters page and page_size, as their characters: left out,
\* a number, or something else
PageParams == { <<>>, <<"0">>, <<"1">>, <<"2">>, <<"-", "1">>, <<"x">> }

\* the query parameter song
NameParams == { "N" }

\* the query parameter release_date: left out, a date, or something else
DateParams == { "", "0001-01-02", "x" }

DigitOf(ch) ==
  CASE ch = "0" -> 0 [] ch = "1" -> 1 [] ch = "2" -> 2 [] ch = "3" -> 3
    [] ch = "4" -> 4 [] ch = "5" -> 5 [] ch = "6" -> 6 [] ch = "7" -> 7
    [] ch = "8" -> 8 [] ch = "9" -> 9 [] OTHER -> -1

RECURSIVE DigitsValue(_)
DigitsValue(s) ==
  IF s = <<>> THEN 0
  ELSE 10 * DigitsValue(SubSeq(s, 1, Len(s) - 1)) + DigitOf(s[Len(s)])

\* strconv.Atoi(s): an optional sign and decimal digits
Atoi(s) ==
  LET signed == Len(s) > 0 /\ s[1] \in {"-", "+"}
      digits == IF signed THEN Tail(s) ELSE s
  IN IF digits = <<>> \/ \E i \in 1..Len(digits) : DigitOf(digits[i]) < 0
       THEN [v |-> 0, err |-> <<"strconv.Atoi: invalid syntax">>]
       ELSE [v |-> IF signed /\ s[1] = "-" THEN 0 - DigitsValue(digits)
                   ELSE DigitsValue(digits),
             err |-> NoErr]

\* time.Parse("2006-01-02", releaseDateStr)
ParseDate(s) ==
  IF s = "0001-01-02" THEN [v |-> 1, err |-> NoErr]
  ELSE [v |-> ZeroTime, err |-> <<"parsing time">>]

\* a handler answers without calling the Service
Rejected(op, k) ==
  /\ SvcCanStart
  /\ last' = [op |-> op, w |-> 0, key |-> k, song |-> NoSong, res |-> NoSong,
              err |-> ErrInvalidRequest, calls |-> <<>>, n |-> 1 - last.n,
              prev |-> Summary(last)]
  /\ UNCHANGED <<songs, cache, now, nextId, pc, key, song, todo, calls, held,
                 storeBy, concurrent, faulty, repo>>

\* Handler.Add
HandlerAdd(body) ==
  IF body.err # NoErr \/ body.Name = "" \/ body.Group = ""
    THEN Rejected("Handler.Add", NoKey)
    ELSE ServiceAdd(SongInfo(NilID, body.Name, body.Group))

\* Handler.Get
HandlerGet(idParam) ==
  LET id == ParseUUID(idParam)
  IN IF id.err # NoErr THEN Rejected("Handler.Get", NoKey)
     ELSE ServiceGet(SongInfo(id.id, "", ""))

\* Handler.Update
HandlerUpdate(idParam, body) ==
  LET id == ParseUUID(idParam)
  IN IF id.err # NoErr \/ body.err # NoErr THEN Rejected("Handler.Update", NoKey)
     ELSE ServiceUpdate(SongInfo(id.id, "", ""),
                        Song(NilID, body.Name, body.Group, body.Text, body.Link,
                             ZeroTime, ZeroTime, ZeroTime))

\* Handler.Delete
HandlerDelete(idParam) ==
  LET id == ParseUUID(idParam)
  IN IF id.err # NoErr THEN Rejected("Handler.Delete", NoKey)
     ELSE ServiceDelete(SongInfo(id.id, "", ""))

\* page := 0; if pageStr != "" { page, err = strconv.Atoi(pageStr) }
\* (and the same for page_size)
PageParam(pageStr) ==
  IF pageStr = <<>> THEN [v |-> 0, err |-> NoErr] ELSE Atoi(pageStr)

\* Handler.GetAllWithFilter
HandlerGetAllWithFilter(name, pageStr, pageSizeStr, releaseDateStr) ==
  LET page == PageParam(pageStr)
      pageSize == PageParam(pageSizeStr)
      releaseDate == IF releaseDateStr = "" THEN [v |-> ZeroTime, err |-> NoErr]
                     ELSE ParseDate(releaseDateStr)
  IN IF \/ pageStr # <<>> /\ (page.err # NoErr \/ page.v <= 0)
        \/ pageSizeStr # <<>> /\ (pageSize.err # NoErr \/ pageSize.v <= 0)
        \/ releaseDate.err # NoErr
       THEN Rejected("Handler.GetAllWithFilter", NoKey)
       ELSE ServiceGetAllWithFilter(
              Song(NilID, name, "", "", "", releaseDate.v, ZeroTime, ZeroTime),
              page.v, pageSize.v)

\* Handler.GetPaginatedText
HandlerGetPaginatedText(idParam) ==
  LET id == ParseUUID(idParam)
  IN IF id.err # NoErr THEN Rejected("Handler.GetPaginatedText", NoKey)
     ELSE ServiceGetPaginatedText(SongInfo(id.id, "", ""))

\* the status of the response a handler writes for the request r it served:
\* the render.Status it set before render.JSON, and 200 where it set none
HandlerStatus(r) ==
  CASE r.op = "Handler.Get" -> StatusOK
    [] r.op \in {"Handler.Add", "Handler.Update", "Handler.Delete",
                 "Handler.GetAllWithFilter", "Handler.GetPaginatedText"}
         -> StatusBadRequest
    [] r.op = "Service.Add"
         -> IF r.err # NoErr THEN StatusInternalServerError ELSE StatusCreated
    [] r.op = "Service.Get" -> StatusOK
    [] r.op \in {"Service.Update", "Service.Delete", "Service.GetPaginatedText"}
         -> IF r.err = NoErr THEN StatusOK
            ELSE IF Is(r.err, ErrSongNotFound) THEN StatusNotFound
            ELSE StatusInternalServerError
    [] r.op = "Service.GetAllWithFilter"
         -> IF r.err # NoErr THEN StatusInternalServerError ELSE StatusOK
    [] OTHER -> 0

HandlerNext ==
  \/ \E body \in AddBodies : HandlerAdd(body)
  \/ \E idParam \in IdParams : HandlerGet(idParam)
  \/ \E idParam \in IdParams, body \in UpdateBodies : HandlerUpdate(idParam, body)
  \/ \E idParam \in IdParams : HandlerDelete(idParam)
  \/ \E name \in NameParams, pageStr \in PageParams, pageSizeStr \in PageParams,
        releaseDateStr \in DateParams :
       HandlerGetAllWithFilter(name, pageStr, pageSizeStr, releaseDateStr)
  \/ \E idParam \in IdParams : HandlerGetPaginatedText(idParam)

\* the handlers over the Service over the cache-over-store Repository, or
\* over the Service over a double
HandlerInit == SeqFaultInit \/ StubInit

HandlerSpec == HandlerInit /\ [][HandlerNext]_vars

(***************************************************************************)
(* Claims about the handlers                                               *)
(***************************************************************************)
\* C33: for the handlers Add, Get, Update, Delete and GetPaginatedText the
\* status of the response follows the kind of the error the Service
\* returned: NotFound gives 404, AlreadyExists gives 409 (conflict), any other
\* error gives 500, and the status is 2xx only on success.
C33_StatusFollowsKind ==
  last.op \in {"Service.Add", "Service.Get", "Service.Update", "Service.Delete",
               "Service.GetPaginatedText"}
    => /\ Is(last.err, ErrSongNotFound) => HandlerStatus(last) = 404
       /\ Is(last.err, ErrSongExists) => HandlerStatus(last) = 409
       /\ (/\ last.err # NoErr
           /\ ~Is(last.err, ErrSongNotFound)
           /\ ~Is(last.err, ErrSongExists))
            => HandlerStatus(last) = 500
       /\ HandlerStatus(last) \in 200..299 => last.err = NoErr

\* C38: for every list request the handler accepts, the offset that reaches
\* the store, (page - 1) * pageSize, is not negative, also when page is left
\* out and page_size is given; and with both left out the limit and the
\* offset are 0.
C38_OffsetNotNegative ==
  last.op = "Service.GetAllWithFilter"
    => /\ last.calls[1].call = "Repository.ReadAllWithFilter"
       /\ last.calls[1].page[1] = last.key.pageSize
       /\ last.calls[1].page[2] >= 0
       /\ (last.key.page = 0 /\ last.key.pageSize = 0)
            => last.calls[1].page = <<0, 0>>

(***************************************************************************)
(* Claims about overlapping requests                                       *)
(***************************************************************************)
\* no request is running, and the two requests that returned last are a Read
\* and a Delete of id k, in either order, both without an error
ReadAndDeleteReturned(k) ==
  /\ Idle
  /\ last.err = NoErr /\ last.prev.ok
  /\ last.key.ID = k /\ last.prev.id = k
  /\ {last.op, last.prev.op} = {"Read", "Delete"}

\* C34: however a Read(K) and a Delete(K) interleave, once both have
\* returned without an error the cache holds no entry for K: a cache fill
\* begun before the delete does not bring the deleted song back.
C34_DeleteWinsOverFill ==
  \A k \in Ids : ReadAndDeleteReturned(k) => ~CacheHolds(k)

(***************************************************************************)
(* Service.Update by overlapping requests: each request runs Service.Get   *)
(* and mergeSongs, and later Repo.Update; another request may run between  *)
(* the two                                                                 *)
(***************************************************************************)
\* the clock is followed until every request admitted has updated the row
MaxUpdateClock == MaxClock + 2 * MaxRequests

\* the song in the library when the requests arrive, as Create left it
LibrarySong == Song(1, "n1", "g1", "t1", "l1", 1, 1, 2)

\* the records of the requests: only the text set, only the link set
TextOnly == Song(NilID, "", "", "a\n\nb", "", ZeroTime, ZeroTime, ZeroTime)
LinkOnly == Song(NilID, "", "", "", "l3", ZeroTime, ZeroTime, ZeroTime)
FieldInputs == {TextOnly, LinkOnly}

\* what is remembered of the request before the last, with its record
UpdateSummary(r) ==
  [op |-> r.op, id |-> r.key.ID, ok |-> r.err = NoErr, song |-> r.song]

\* the request of worker w returns
UpdateReturn(w, k, s, r, e, cs) ==
  /\ songs' = r.songs
  /\ cache' = r.cache
  /\ now' = r.now
  /\ nextId' = r.nextId
  /\ held' = held \cup { ScanRow(x) : x \in r.songs }
  /\ pc' = [pc EXCEPT ![w] = "idle"]
  /\ key' = [key EXCEPT ![w] = NoKey]
  /\ song' = [song EXCEPT ![w] = NoSong]
  /\ todo' = [todo EXCEPT ![w] = {}]
  /\ calls' = [calls EXCEPT ![w] = <<>>]
  /\ last' = [op |-> "Service.Update", w |-> w, key |-> k, song |-> s,
              res |-> NoSong, err |-> e, calls |-> cs, n |-> 1 - last.n,
              prev |-> UpdateSummary(last)]
  /\ UNCHANGED <<storeBy, concurrent, faulty, repo>>

\* targetSong, err := s.Get(ctx, songInfo); mergedSong := mergeSongs(...)
UpdateGet(w, k, s) ==
  /\ CanStart(w)
  /\ now + 1 <= MaxUpdateClock
  /\ \E og \in GetOutcomes(cache, k), os \in [1..2 -> Outcomes] :
       LET r == RepoRead(Here, k, og, os)
           g == GetReturn(r)
           gc == Called("Repository.Read", k, NoSong, <<>>, r)
       IN IF g.err # NoErr
            THEN UpdateReturn(w, k, s, g, Wrap("Service.Update", g.err), <<gc>>)
            ELSE /\ songs' = g.songs
                 /\ cache' = g.cache
                 /\ now' = g.now + 1
                 /\ pc' = [pc EXCEPT ![w] = "Update.repo"]
                 /\ key' = [key EXCEPT ![w] = k]
                 /\ song' = [song EXCEPT ![w] = mergeSongs(s, g.res, g.now)]
                 /\ todo' = [todo EXCEPT ![w] = {s}]
                 /\ calls' = [calls EXCEPT ![w] = <<gc>>]
                 /\ UNCHANGED <<nextId, last, held, storeBy, concurrent, faulty,
                                repo>>

\* err = s.Repo.Update(ctx, songInfo, mergedSong)
UpdateRepo(w) ==
  /\ pc[w] = "Update.repo"
  /\ \E os \in [1..2 -> Outcomes], s \in todo[w] :
       LET u == RepoUpdate(Here, key[w], song[w], os)
           uc == Called("Repository.Update", key[w], song[w], <<>>, u)
       IN UpdateReturn(w, key[w], s, u,
                       IF u.err = NoErr THEN NoErr
                       ELSE IF Is(u.err, ErrSongNotFound)
                         THEN Wrap("Service.Update: song not found", ErrSongNotFound)
                         ELSE Wrap("Service.Update: failed to update song", u.err),
                       Append(calls[w], uc))
  /\ UNCHANGED started

UpdateInit ==
  /\ songs = {InsertRow(LibrarySong)}
  /\ cache \in {[x \in {} |-> NoSong], CacheSet([x \in {} |-> NoSong], LibrarySong)}
  /\ now = 3
  /\ nextId = 2
  /\ pc = [w \in Workers |-> "idle"]
  /\ key = [w \in Workers |-> NoKey]
  /\ song = [w \in Workers |-> NoSong]
  /\ todo = [w \in Workers |-> {}]
  /\ calls = [w \in Workers |-> <<>>]
  /\ last = [NoRequest EXCEPT !.prev = UpdateSummary(NoRequest)]
  /\ started = 0
  /\ held = {LibrarySong}
  /\ storeBy = [k \in KeyIds |-> 0]
  /\ concurrent = TRUE
  /\ faulty \in BOOLEAN
  /\ repo = NewRepository

UpdateNext ==
  \/ \E w \in Workers, k \in KeyInputs, s \in FieldInputs : UpdateGet(w, k, s)
  \/ \E w \in Workers : UpdateRepo(w)

ConcUpdateSpec == UpdateInit /\ [][UpdateNext]_vars

\* no request is running, and the two requests that returned last are
\* updates of id k that returned nil, one of the text and one of the link
BothUpdated(k) ==
  /\ Idle
  /\ last.op = "Service.Update" /\ last.prev.op = "Service.Update"
  /\ last.err = NoErr /\ last.prev.ok
  /\ last.key.ID = k /\ last.prev.id = k
  /\ {last.song, last.prev.song} = {TextOnly, LinkOnly}

\* C35: when two Service.Update calls on one key overlap, one changing only
\* the text and the other only the link, and both return nil, the stored
\* record has the new text and the new link.
C35_NoLostUpdate ==
  \A k \in Ids :
    BothUpdated(k)
      => /\ StoreHolds(k)
         /\ StoreSong(k).Text = TextOnly.Text
         /\ StoreSong(k).Link = LinkOnly.Link

(***************************************************************************)
(* Claims about recovery                                                   *)
(***************************************************************************)
\* C36: when a CacheRecovery has returned success, with one request at a
\* time, the cache is the store rebuilt: the ids cached are the ids stored
\* and every payload encodes its row, so that an entry left behind for a song
\* the store no longer holds is gone.
C36_RecoveryRebuilds ==
  [][ (Recovered' /\ Returned)
        => /\ DOMAIN cache' = { r.id : r \in songs' }
           /\ \A r \in songs' :
                r.id \in DOMAIN cache'
                  => cache'[r.id] = MarshalDTO(SongToDTO(ScanRow(r))) ]_vars


(***************************************************************************)
(* Claims about the lookup                                                 *)
(***************************************************************************)
\* C37: whenever Service.Add calls Repository.Create the song it passes is
\* not nil and has a name, a group and a text; when the lookup's response
\* lacks one of them Add returns an error and does not call
\* Repository.Create.
C37_CreateGetsPopulatedSong ==
  last.op = "Service.Add"
    => /\ \A i \in 1..Len(last.calls) :
            last.calls[i].call = "Repository.Create"
              => /\ last.calls[i].song # NoSong
                 /\ last.calls[i].song.Name # ""
                 /\ last.calls[i].song.Group # ""
                 /\ last.calls[i].song.Text # ""
       /\ last.calls[1].res = NoSong
            => /\ last.err # NoErr
               /\ \A i \in 1..Len(last.calls) :
                    last.calls[i].call # "Repository.Create"

(***************************************************************************)
(* The cache keyed by group and name: the variant of Redis whose keys are  *)
(* built by genKey, one request at a time                                  *)
(***************************************************************************)
ErrSongNameIsNull == <<"ErrSongNameIsNull">>
ErrSongGroupIsNull == <<"ErrSongGroupIsNull">>
ErrSongNameAndGroupIsNull == <<"ErrSongNameAndGroupIsNull">>

\* the names and groups of the songs, as their characters
NameParts == { <<>>, <<"a">>, <<"a", "-", "a">> }

\* the songs given to Set
CompositeSongs ==
  { Song(NilID, n, g, t, "l1", 1, 1, 2) :
      n \in NameParts, g \in NameParts, t \in {"t1", "t2"} }

\* genKey(group, name)
genKey(group, name) ==
  IF group # <<>> /\ name = <<>> THEN [key |-> <<>>, err |-> ErrSongNameIsNull]
  ELSE IF group = <<>> /\ name # <<>>
    THEN [key |-> <<>>, err |-> ErrSongGroupIsNull]
  ELSE IF group = <<>> /\ name = <<>>
    THEN [key |-> <<>>, err |-> ErrSongNameAndGroupIsNull]
  ELSE [key |-> <<"s", "o", "n", "g", ":">> \o group \o <<"-">> \o name,
        err |-> NoErr]

\* json.Marshal(song) and json.Unmarshal into *domain.Song: the members are
\* named by the fields of domain.Song on both sides
MarshalSong(s) ==
  [ID |-> s.ID, Name |-> s.Name, Group |-> s.Group, Text |-> s.Text,
   Link |-> s.Link, ReleaseDate |-> s.ReleaseDate, CreatedAt |-> s.CreatedAt,
   UpdatedAt |-> s.UpdatedAt]

UnmarshalFields(js) ==
  Song(js.ID, js.Name, js.Group, js.Text, js.Link, js.ReleaseDate, js.CreatedAt,
       js.UpdatedAt)

\* Redis.Set of the variant
CompositeSet(s) ==
  /\ StoreCanStart
  /\ \E o \in Outcomes :
       LET k == genKey(s.Group, s.Name)
           e == IF k.err # NoErr
                  THEN Wrap("repository.Redis.Set: could not generate key for song",
                            k.err)
                ELSE IF o = "fail" THEN Wrap("repository.Redis.Set", ErrBackend)
                ELSE NoErr
       IN CacheReturn("Composite.Set", SongInfo(NilID, s.Name, s.Group), s,
                      IF e = NoErr THEN RedisSet(cache, k.key, MarshalSong(s))
                      ELSE cache,
                      NoSong, e, <<>>)

\* Redis.Get of the variant
CompositeGet(group, name) ==
  /\ StoreCanRead
  /\ \E o \in Outcomes :
       LET k == genKey(group, name)
           e == IF k.err # NoErr
                  THEN Wrap("repository.Redis.Get: could not generate key for song",
                            k.err)
                ELSE IF o = "fail" THEN Wrap("repository.Redis.Get", ErrBackend)
                ELSE IF k.key \notin DOMAIN cache
                  THEN Wrap("repository.Redis.Get", ErrSongNotFound)
                ELSE NoErr
       IN CacheReturn("Composite.Get", SongInfo(NilID, name, group), NoSong, cache,
                      IF e = NoErr THEN UnmarshalFields(cache[k.key]) ELSE NoSong,
                      e, <<>>)

\* Redis.Invalidate of the variant
CompositeInvalidate(group, name) ==
  /\ StoreCanStart
  /\ \E o \in Outcomes :
       LET k == genKey(group, name)
           e == IF k.err # NoErr
                  THEN Wrap("repository.Redis.Invalidate: could not generate key for song",
                            k.err)
                ELSE IF o = "fail"
                  THEN Wrap("repository.Redis.Invalidate", ErrBackend)
                ELSE NoErr
       IN CacheReturn("Composite.Invalidate", SongInfo(NilID, name, group), NoSong,
                      IF e = NoErr THEN RedisDel(cache, k.key) ELSE cache,
                      NoSong, e, <<>>)

CompositeNext ==
  \/ \E s \in CompositeSongs : CompositeSet(s)
  \/ \E group \in NameParts, name \in NameParts : CompositeGet(group, name)
  \/ \E group \in NameParts, name \in NameParts : CompositeInvalidate(group, name)

CompositeSpec == SeqFaultInit /\ [][CompositeNext]_vars

\* C39: in the variant keyed by group and name, a key with no name, no group
\* or neither is refused with the error of that case and the cache is left as
\* it is; for the other keys genKey is one-to-one, so that a Get that succeeds
\* returns a song of the group and name asked for, and a Set or an Invalidate
\* touches no entry of another group and name.
C39_KeysOneToOne ==
  [][ (Returned /\ last'.op \in {"Composite.Set", "Composite.Get",
                                "Composite.Invalidate"})
        => LET group == last'.key.Group
               name == last'.key.Name
           IN /\ (group # <<>> /\ name = <<>>)
                   => Is(last'.err, ErrSongNameIsNull) /\ cache' = cache
              /\ (group = <<>> /\ name # <<>>)
                   => Is(last'.err, ErrSongGroupIsNull) /\ cache' = cache
              /\ (group = <<>> /\ name = <<>>)
                   => Is(last'.err, ErrSongNameAndGroupIsNull) /\ cache' = cache
              /\ (last'.op = "Composite.Get" /\ last'.err = NoErr)
                   => last'.res.Group = group /\ last'.res.Name = name
              /\ \A k \in DOMAIN cache :
                   (cache[k].Group # group \/ cache[k].Name # name)
                     => k \in DOMAIN cache' /\ cache'[k] = cache[k] ]_vars

====
